---- MODULE Spec2Model ----
(***************************************************************************)
(* A model of chai-data-sources: the Efergy power meter client             *)
(* (efergy.py), the Netatmo thermostat/valve client (netatmo.py) and the   *)
(* helpers they share (utilities.py).                                      *)
(*                                                                         *)
(* Time.  A pendulum.DateTime is modelled as an integer number of ticks    *)
(* since the start of an (arbitrary) hour 0, with TicksPerSecond ticks in  *)
(* a second: the sub-second part stands for DateTime.microsecond.  The     *)
(* wall clock is taken without DST transitions, so that the minute and     *)
(* second fields are those of the linear time.                             *)
(***************************************************************************)
EXTENDS Integers, Sequences, FiniteSets, TLC

VARIABLES
    sys,        \* what is exercised: "efergy", "current", "round", "cache",
                \* "netatmo", "access", "historic", "series" or "clients"
    \* ---- EfergyMeter.get_historic: one generator object
    e_pc,       \* "none" | "created" | "waiting" | "yielded" | "exhausted" | "raised"
    e_args,     \* the arguments the generator was created with
    e_loc,      \* the generator's locals: start, end (aligned), previous, current
    e_out,      \* the records pulled so far
    e_req,      \* the params of the /getEnergy requests issued so far
    e_ans,      \* the answers the server gave to them
    e_exc,      \* the exception the generator ended with, or "None"
    e_sleeps,   \* the number of sleep(1/20) calls made
    \* ---- timed_lru_cache: one wrapped function
    c_now,      \* the wall clock, in seconds
    c_func,     \* func.expiration and the entries of func's lru_cache, oldest first
    c_calls,    \* how often the underlying function has been invoked
    c_last,     \* what the last call of the wrapped function did
    c_hist,     \* per key: the outcome of its last call and the keys called since
    c_expiries, \* every value func.expiration has held
    \* ---- NetatmoClient: one instance
    n_run,      \* the instance (self) and the operation in progress on it
    n_op,       \* the public operation called last, with its arguments
    n_pre,      \* the instance as it was when that operation was called
    n_now,      \* the wall clock, in seconds
    n_cache,    \* per timed_lru_cache function: func.expiration and the entries
    n_ops,      \* the number of operations called so far
    \* ---- EfergyMeter.get_current: the meters of the program
    g_now,      \* the wall clock, in seconds
    g_func,     \* get_current's func.expiration and the entries of its lru_cache
    g_last,     \* what the last call of get_current did
    g_hist,     \* per meter: what its last call of get_current did
    g_calls,    \* the number of calls of get_current so far
    \* ---- round_date: one timestamp and one granularity
    r_args,     \* the date and the minutes round_date is called with
    r_out       \* what round_date returned for them, down and up

evars == <<e_pc, e_args, e_loc, e_out, e_req, e_ans, e_exc, e_sleeps>>
cvars == <<c_now, c_func, c_calls, c_last, c_hist, c_expiries>>
nvars == <<n_run, n_op, n_pre, n_now, n_cache, n_ops>>
gvars == <<g_now, g_func, g_last, g_hist, g_calls>>
rvars == <<r_args, r_out>>
vars == <<sys, evars, cvars, nvars, gvars, rvars>>

(***************************************************************************)
(* Bounds of the model.                                                    *)
(***************************************************************************)
TicksPerSecond == 2     \* sub-second resolution of a DateTime
MaxIntervals == 3       \* longest aligned range of a historic query, in intervals
MaxSum == 2             \* the sums/values a server answers with are 1..MaxSum
MaxTime == 4            \* the wall clock of the cache runs from 0 to MaxTime seconds
MaxCalls == 4           \* invocations of the function under a timed_lru_cache
Lifetime == 2           \* `seconds` of the modelled timed_lru_cache(seconds, maxsize)
MaxSize == 2            \* `maxsize` of the modelled timed_lru_cache(seconds, maxsize)
MaxOps == 2             \* operations called on the NetatmoClient in one behaviour
MaxClock == 15          \* the NetatmoClient is left idle while its clock is below this
MaxObserved == 2        \* observations in one /getmeasure answer to get_historic
MaxReads == 2           \* calls of EfergyMeter.get_current in one behaviour
MaxWait == 6            \* the clock of the meters runs until MaxWait seconds

None == "None"

(***************************************************************************)
(* utilities.py                                                            *)
(***************************************************************************)
Minutes == {1, 2, 3, 5, 6, 10, 15, 30}

TicksPerMinute == 60 * TicksPerSecond
TicksPerHour == 60 * TicksPerMinute

DateTime(hour, minute, second, microsecond) ==
    ((hour * 60 + minute) * 60 + second) * TicksPerSecond + microsecond

minute_of(date) == (date \div TicksPerMinute) % 60
second_of(date) == (date \div TicksPerSecond) % 60
microsecond_of(date) == date % TicksPerSecond
int_timestamp(date) == date \div TicksPerSecond
from_timestamp(seconds) == seconds * TicksPerSecond

\* DateTime.set(minute=.., second=..): every other field, the microsecond
\* included, keeps its value.
set_minute_second(date, minute, second) ==
    (date \div TicksPerHour) * TicksPerHour
        + minute * TicksPerMinute + second * TicksPerSecond + microsecond_of(date)

add_minutes(date, minutes) == date + minutes * TicksPerMinute

\* (a - b).in_minutes(): whole minutes of the difference, truncated
in_minutes(later, earlier) == (later - earlier) \div TicksPerMinute

\* (a slip: a date on a boundary is rounded down to the boundary before it)
round_date_before(date, minutes, round_down) ==
    LET remainder60 == (minute_of(date) % minutes) * 60 + second_of(date)
        floor == set_minute_second(date, (minute_of(date) \div minutes) * minutes, 0)
    IN  IF round_down THEN add_minutes(floor, IF remainder60 = 0 THEN 0 - minutes ELSE 0)
        ELSE add_minutes(floor, IF remainder60 = 0 THEN 0 ELSE minutes)

\* (a slip: the seconds are left out of the remainder)
round_date_minutes_only(date, minutes, round_down) ==
    LET remainder60 == IF round_down THEN 0 ELSE (minute_of(date) % minutes) * 60
    IN  add_minutes(set_minute_second(date, (minute_of(date) \div minutes) * minutes, 0),
                    IF remainder60 = 0 THEN 0 ELSE minutes)

\* remainder = 0 if round_down else (date.minute % minutes) + date.second / 60,
\* kept here in sixtieths so that it stays an integer
round_date(date, minutes, round_down) ==
    LET remainder60 == IF round_down THEN 0
                       ELSE (minute_of(date) % minutes) * 60 + second_of(date)
    IN  add_minutes(set_minute_second(date, (minute_of(date) \div minutes) * minutes, 0),
                    IF remainder60 = 0 THEN 0 ELSE minutes)

(***************************************************************************)
(* The timestamps and granularities the operations are called with.        *)
(***************************************************************************)
StampMinutes == {0, 7, 52, 60}
StampSeconds == {0, 37}
Stamps == { DateTime(0, mi, s, u) : mi \in StampMinutes, s \in StampSeconds,
                                    u \in 0 .. TicksPerSecond - 1 }

\* a behaviour with both clients calls them with few arguments
Both == sys = "clients"
WholeMinutes == {DateTime(0, mi, 0, 0) : mi \in {0, 7, 52}}

\* the number of loop iterations of `while current < end: current += minutes`
Iterations(start, end, minutes) ==
    IF end <= start THEN 0
    ELSE ((end - start) + minutes * TicksPerMinute - 1) \div (minutes * TicksPerMinute)

\* a call is within the bounds of the model when its aligned range is short
InBounds(start, end, minutes) ==
    Iterations(round_date(start, minutes, TRUE), round_date(end, minutes, FALSE), minutes)
        <= MaxIntervals

(***************************************************************************)
(* utilities.py: round_date on its own.  The dates it is called with lie   *)
(* around the boundaries of the granularities, late in an hour and late in *)
(* a day included.                                                         *)
(***************************************************************************)
RoundHours == {10, 23}
RoundSeconds == {0, 2, 37, 59}
RoundDates == { DateTime(h, mi, s, u) : h \in RoundHours, mi \in 0 .. 59,
                                         s \in RoundSeconds, u \in 0 .. TicksPerSecond - 1 }

NoRounding == [done |-> FALSE, down |-> 0, up |-> 0, down_down |-> 0, up_up |-> 0]

RoundIdle ==
    /\ r_args = [date |-> 0, minutes |-> 1]
    /\ r_out = NoRounding

\* round_date(date, minutes=minutes, round_down=True) and
\* round_date(date, minutes=minutes, round_down=False), and each once more on
\* its own result
Round_date ==
    /\ sys = "round"
    /\ ~r_out.done
    /\ LET down == round_date(r_args.date, r_args.minutes, TRUE)
           up == round_date(r_args.date, r_args.minutes, FALSE)
       IN  r_out' = [done |-> TRUE, down |-> down, up |-> up,
                     down_down |-> round_date(down, r_args.minutes, TRUE),
                     up_up |-> round_date(up, r_args.minutes, FALSE)]
    /\ UNCHANGED <<sys, r_args, evars, cvars, nvars, gvars>>

RoundNext == Round_date

(***************************************************************************)
(* utilities.py: timed_lru_cache(seconds, maxsize) around a function.      *)
(* A key is the argument tuple of a call: the instance (`self`) and the    *)
(* keyword argument.  A result records which invocation produced it.       *)
(***************************************************************************)
CacheKeys == {[self |-> 1, thermostat |-> TRUE], [self |-> 1, thermostat |-> FALSE],
              [self |-> 2, thermostat |-> TRUE]}

DefaultMaxSize == 128       \* maxsize of timed_lru_cache

\* wrapper_cache: func.expiration = pendulum.now().add(seconds=func.lifetime)
wrapper_cache(now, seconds) == [expiration |-> now + seconds, entries |-> <<>>]

\* (a slip: the cache outlives the instant of its expiry)
expire_late(func, now, seconds) ==
    IF now > func.expiration
    THEN [expiration |-> now + seconds, entries |-> <<>>]
    ELSE func

\* (a slip: the lifetime is counted twice)
expire_twice(func, now, seconds) ==
    IF now >= func.expiration
    THEN [expiration |-> now + 2 * seconds, entries |-> <<>>]
    ELSE func

\* wrapped_func, lines 98-100: the whole cache is cleared once expired
expire(func, now, seconds) ==
    IF now >= func.expiration
    THEN [expiration |-> now + seconds, entries |-> <<>>]
    ELSE func

\* (a slip: the keyword arguments are left out of the key)
lru_find_by_self(entries, key) ==
    IF \E i \in 1 .. Len(entries) : entries[i].key.self = key.self
    THEN CHOOSE i \in 1 .. Len(entries) : entries[i].key.self = key.self
    ELSE 0

\* functools.lru_cache: the position of the key's entry, 0 when there is none
lru_find(entries, key) ==
    IF \E i \in 1 .. Len(entries) : entries[i].key = key
    THEN CHOOSE i \in 1 .. Len(entries) : entries[i].key = key
    ELSE 0

lru_remove(entries, i) ==
    [j \in 1 .. Len(entries) - 1 |-> IF j < i THEN entries[j] ELSE entries[j + 1]]

\* functools.lru_cache on a hit: the entry becomes the most recently used
lru_touch(entries, i) == Append(lru_remove(entries, i), entries[i])

\* (a slip: only the newest result is kept)
lru_store_newest_only(entries, key, value, maxsize) ==
    IF maxsize = 0 THEN entries
    ELSE <<[key |-> key, value |-> value]>>

\* functools.lru_cache on a miss that returned: the oldest entry makes room
lru_store(entries, key, value, maxsize) ==
    IF maxsize = 0 THEN entries
    ELSE IF Len(entries) >= maxsize
    THEN Append(lru_remove(entries, 1), [key |-> key, value |-> value])
    ELSE Append(entries, [key |-> key, value |-> value])

NoKey == [self |-> 0, thermostat |-> FALSE]
NoResult == [id |-> 0, key |-> NoKey, at |-> 0]
NoHist == [known |-> FALSE, failed |-> FALSE, value |-> NoResult, expiry |-> 0, others |-> {}]
NoCall == [time |-> 0, key |-> NoKey, expired |-> FALSE, before |-> 0, hit |-> FALSE,
           invoked |-> FALSE, raised |-> FALSE, result |-> NoResult, prior |-> NoHist]

CacheIdle ==
    /\ c_now = 0
    /\ c_func = wrapper_cache(0, Lifetime)
    /\ c_calls = 0
    /\ c_last = NoCall
    /\ c_hist = [k \in CacheKeys |-> NoHist]
    /\ c_expiries = {Lifetime}

\* (a slip: what a call that raised would have returned is cached)
wrapped_func_caching_failures(key, raises) ==
    /\ sys = "cache"
    /\ c_calls < MaxCalls
    /\ LET func == expire(c_func, c_now, Lifetime)
           i == lru_find(func.entries, key)
           hit == i # 0
           result == IF hit THEN func.entries[i].value
                     ELSE [id |-> c_calls + 1, key |-> key, at |-> c_now]
           raised == ~hit /\ raises
           entries == IF hit THEN lru_touch(func.entries, i)
                      ELSE lru_store(func.entries, key, result, MaxSize)
       IN  /\ hit => ~raises     \* nothing to choose when nothing is invoked
           /\ c_func' = [func EXCEPT !.entries = entries]
           /\ c_calls' = IF hit THEN c_calls ELSE c_calls + 1
           /\ c_last' = [time |-> c_now, key |-> key,
                         expired |-> c_now >= c_func.expiration,
                         before |-> Len(c_func.entries),
                         hit |-> hit, invoked |-> ~hit, raised |-> raised,
                         result |-> IF raised THEN NoResult ELSE result,
                         prior |-> c_hist[key]]
           /\ c_hist' = [k \in CacheKeys |->
                           IF k = key
                           THEN IF raised THEN [NoHist EXCEPT !.failed = TRUE]
                                ELSE [known |-> TRUE, failed |-> FALSE, value |-> result,
                                      expiry |-> func.expiration, others |-> {}]
                           ELSE IF ~c_hist[k].known THEN c_hist[k]
                           ELSE [c_hist[k] EXCEPT !.others =
                                    IF Cardinality(@ \cup {key}) >= MaxSize
                                    THEN CacheKeys \ {k} ELSE @ \cup {key}]]
           /\ c_expiries' = c_expiries \cup {func.expiration}
    /\ UNCHANGED <<sys, c_now, evars, nvars, gvars, rvars>>

\* One call of the wrapped function.  When the underlying function is
\* invoked it returns a fresh result or raises.
wrapped_func(key, raises) ==
    /\ sys = "cache"
    /\ c_calls < MaxCalls
    /\ LET func == expire(c_func, c_now, Lifetime)
           i == lru_find(func.entries, key)
           hit == i # 0
           result == IF hit THEN func.entries[i].value
                     ELSE [id |-> c_calls + 1, key |-> key, at |-> c_now]
           raised == ~hit /\ raises
           entries == IF hit THEN lru_touch(func.entries, i)
                      ELSE IF raised THEN func.entries
                      ELSE lru_store(func.entries, key, result, MaxSize)
       IN  /\ hit => ~raises     \* nothing to choose when nothing is invoked
           /\ c_func' = [func EXCEPT !.entries = entries]
           /\ c_calls' = IF hit THEN c_calls ELSE c_calls + 1
           /\ c_last' = [time |-> c_now, key |-> key,
                         expired |-> c_now >= c_func.expiration,
                         before |-> Len(c_func.entries),
                         hit |-> hit, invoked |-> ~hit, raised |-> raised,
                         result |-> IF raised THEN NoResult ELSE result,
                         prior |-> c_hist[key]]
           /\ c_hist' = [k \in CacheKeys |->
                           IF k = key
                           THEN IF raised THEN [NoHist EXCEPT !.failed = TRUE]
                                ELSE [known |-> TRUE, failed |-> FALSE, value |-> result,
                                      expiry |-> func.expiration, others |-> {}]
                           ELSE IF ~c_hist[k].known THEN c_hist[k]
                           ELSE [c_hist[k] EXCEPT !.others =
                                    IF Cardinality(@ \cup {key}) >= MaxSize
                                    THEN CacheKeys \ {k} ELSE @ \cup {key}]]
           /\ c_expiries' = c_expiries \cup {func.expiration}
    /\ UNCHANGED <<sys, c_now, evars, nvars, gvars, rvars>>

\* time passes
Tick ==
    /\ sys = "cache"
    /\ c_now < MaxTime
    /\ c_now' = c_now + 1
    /\ UNCHANGED <<sys, c_func, c_calls, c_last, c_hist, c_expiries, evars, nvars, gvars, rvars>>

CacheNext ==
    \/ \E key \in CacheKeys, raises \in BOOLEAN : wrapped_func(key, raises)
    \/ Tick

(***************************************************************************)
(* efergy.py: EfergyMeter                                                  *)
(***************************************************************************)
\* What the Energyhive server can answer to a GET: a transport failure, or a
\* status with a body.  A body is empty, not JSON, JSON of the wrong shape, or
\* a _HistoryResult.
EfergyBodies(minutes) ==
    {[kind |-> k, sum |-> 0, duration |-> 0] : k \in {"empty", "notjson", "wrongshape"}}
    \cup {[kind |-> "history", sum |-> s, duration |-> d] :
            s \in 1 .. MaxSum, d \in {minutes * 60, (minutes + 1) * 60}}

NoBody == [kind |-> "empty", sum |-> 0, duration |-> 0]

EfergyAnswers(minutes) ==
    {[failed |-> TRUE, status |-> 0, body |-> NoBody],
     [failed |-> FALSE, status |-> 500, body |-> [NoBody EXCEPT !.kind = "notjson"]],
     [failed |-> FALSE, status |-> 404, body |-> [NoBody EXCEPT !.kind = "notjson"]]}
    \cup {[failed |-> FALSE, status |-> 200, body |-> b] : b \in EfergyBodies(minutes)}

\* EfergyMeter._access_server: the exception it raises on this answer, or None
Efergy_access_server_exc(answer) ==
    IF answer.failed THEN "EfergyConnectionError"
    ELSE IF answer.status = 500 THEN "EfergyServerError"
    ELSE IF answer.status >= 400 \/ answer.body.kind = "empty" THEN "EfergyUnknownError"
    ELSE IF answer.body.kind = "notjson" THEN "EfergyJSONError"
    ELSE None

\* (a slip: the duration of the answer is not asserted)
Efergy_decode_exc_unasserted(answer, minutes) ==
    IF answer.body.kind # "history" THEN "EfergyDataclassError"
    ELSE None

\* the part of get_historic's loop body after the request returned json_data
Efergy_decode_exc(answer, minutes) ==
    IF answer.body.kind # "history" THEN "EfergyDataclassError"
    ELSE IF answer.body.duration # minutes * 60 THEN "AssertionError"
    ELSE None

HistoricPower(value, start, end) == [value |-> value, start |-> start, end |-> end]

EfergyParams(previous, current) ==
    [fromTime |-> int_timestamp(previous), toTime |-> int_timestamp(current),
     period |-> "custom", offset |-> -60]

NoArgs == [start |-> 0, end |-> 0, minutes |-> 1]
NoLoc == [start |-> 0, end |-> 0, previous |-> 0, current |-> 0]

EfergyIdle ==
    /\ e_pc = "none" /\ e_args = NoArgs /\ e_loc = NoLoc
    /\ e_out = <<>> /\ e_req = <<>> /\ e_ans = <<>> /\ e_exc = None /\ e_sleeps = 0

\* get_historic, lines 164-168: the intervals `while current < end:` goes
\* through when every request is answered
RECURSIVE Efergy_walk(_, _, _)
Efergy_walk(current, end, minutes) ==
    IF current < end
    THEN <<[previous |-> current, current |-> add_minutes(current, minutes)]>>
            \o Efergy_walk(add_minutes(current, minutes), end, minutes)
    ELSE <<>>

\* get_historic, lines 158-168, called with start, end and minutes
Efergy_intervals(start, end, minutes) ==
    Efergy_walk(round_date(start, minutes, TRUE), round_date(end, minutes, FALSE), minutes)

\* Calling get_historic creates the generator; none of its body runs.
Efergy_get_historic(start, end, minutes) ==
    /\ sys \in {"efergy", "clients"}
    /\ e_pc = "none"
    /\ end <= start \/ InBounds(start, end, minutes)
    /\ e_pc' = "created"
    /\ e_args' = [start |-> start, end |-> end, minutes |-> minutes]
    /\ UNCHANGED <<sys, e_loc, e_out, e_req, e_ans, e_exc, e_sleeps, cvars, nvars, gvars, rvars>>

\* (a slip: the request of the following interval is sent ahead)
Efergy_loop_ahead(loc) ==
    IF loc.current < loc.end
    THEN LET previous == loc.current
             current == add_minutes(loc.current, e_args.minutes)
         IN  /\ e_loc' = [loc EXCEPT !.previous = previous, !.current = current]
             /\ e_req' = e_req \o <<EfergyParams(previous, current),
                                    EfergyParams(current, add_minutes(current, e_args.minutes))>>
             /\ e_pc' = "waiting"
             /\ UNCHANGED e_exc
    ELSE /\ e_loc' = loc
         /\ e_pc' = "exhausted"
         /\ UNCHANGED <<e_req, e_exc>>

\* `while current < end:` up to the request of the loop body, or the end of
\* the generator
Efergy_loop(loc) ==
    IF loc.current < loc.end
    THEN LET previous == loc.current
             current == add_minutes(loc.current, e_args.minutes)
         IN  /\ e_loc' = [loc EXCEPT !.previous = previous, !.current = current]
             /\ e_req' = Append(e_req, EfergyParams(previous, current))
             /\ e_pc' = "waiting"
             /\ UNCHANGED e_exc
    ELSE /\ e_loc' = loc
         /\ e_pc' = "exhausted"
         /\ UNCHANGED <<e_req, e_exc>>

\* The first next(): the body runs from its top to the first request.
Efergy_first_pull ==
    /\ sys \in {"efergy", "clients"}
    /\ e_pc = "created"
    /\ IF e_args.end <= e_args.start
       THEN /\ e_pc' = "raised"
            /\ e_exc' = "ValueError"
            /\ UNCHANGED <<e_loc, e_req>>
       ELSE LET start == round_date(e_args.start, e_args.minutes, TRUE)
                end == round_date(e_args.end, e_args.minutes, FALSE)
            IN  Efergy_loop([start |-> start, end |-> end,
                             previous |-> start, current |-> start])
    /\ UNCHANGED <<sys, e_args, e_out, e_ans, e_sleeps, cvars, nvars, gvars, rvars>>

\* The server answers the request in flight; the body runs on to the yield.
Efergy_answer(answer) ==
    /\ sys \in {"efergy", "clients"}
    /\ e_pc = "waiting"
    /\ e_ans' = Append(e_ans, answer)
    /\ LET exc == IF Efergy_access_server_exc(answer) # None
                  THEN Efergy_access_server_exc(answer)
                  ELSE Efergy_decode_exc(answer, e_args.minutes)
       IN  IF exc # None
           THEN /\ e_pc' = "raised"
                /\ e_exc' = exc
                /\ UNCHANGED e_out
           ELSE /\ e_pc' = "yielded"
                /\ e_out' = Append(e_out, HistoricPower(answer.body.sum,
                                                        e_loc.previous, e_loc.current))
                /\ UNCHANGED e_exc
    /\ UNCHANGED <<sys, e_args, e_loc, e_req, e_sleeps, cvars, nvars, gvars, rvars>>

\* (a slip: the body resumes without the pause)
Efergy_next_pull_at_once ==
    /\ sys \in {"efergy", "clients"}
    /\ e_pc = "yielded"
    /\ e_sleeps' = e_sleeps
    /\ Efergy_loop(e_loc)
    /\ UNCHANGED <<sys, e_args, e_out, e_ans, cvars, nvars, gvars, rvars>>

\* A later next(): the body resumes after the yield with sleep(1 / 20).
Efergy_next_pull ==
    /\ sys \in {"efergy", "clients"}
    /\ e_pc = "yielded"
    /\ e_sleeps' = e_sleeps + 1
    /\ Efergy_loop(e_loc)
    /\ UNCHANGED <<sys, e_args, e_out, e_ans, cvars, nvars, gvars, rvars>>

EfergyNext ==
    \/ /\ e_pc = "none"
       /\ \E start \in Stamps, end \in Stamps, minutes \in Minutes :
            /\ Both => minutes = 30 /\ {start, end} \subseteq WholeMinutes
            /\ Efergy_get_historic(start, end, minutes)
    \/ Efergy_first_pull
    \/ /\ e_pc = "waiting"
       /\ \E answer \in EfergyAnswers(e_args.minutes) : Efergy_answer(answer)
    \/ Efergy_next_pull

(***************************************************************************)
(* efergy.py: EfergyMeter.get_current, a timed_lru_cache(seconds=6)        *)
(* function.  The JSON of an answer is a list of meters, a dict, or a      *)
(* number; a meter is complete or lacks a field of _PowerResult; its data  *)
(* is a list of readings, each a dict from a millisecond timestamp to a    *)
(* value, here a sequence of pairs.                                        *)
(***************************************************************************)
CurrentTimeout == 6     \* @timed_lru_cache(seconds=6) of get_current

Meters == {1, 2}

Reading(ms, value) == <<[ms |-> ms, value |-> value]>>
Meter(complete, data) == [complete |-> complete, data |-> data]

CurrentBody(kind, meters, error) == [kind |-> kind, meters |-> meters, error |-> error]

CurrentBodies ==
    {CurrentBody(k, <<>>, "") : k \in {"empty", "notjson", "number"}}
    \cup {CurrentBody("dict", <<>>, e) : e \in {"id500", "bad token", "server down", ""}}
    \cup {CurrentBody("list", ms, "") :
            ms \in {<<>>,
                    <<Meter(TRUE, <<Reading(1500, 1)>>)>>,
                    <<Meter(TRUE, <<Reading(3000, 2)>>)>>,
                    <<Meter(FALSE, <<Reading(1500, 1)>>)>>,
                    <<Meter(TRUE, <<>>)>>,
                    <<Meter(TRUE, <<Reading(1500, 1), Reading(3000, 2)>>)>>,
                    <<Meter(TRUE, <<Reading(1500, 1) \o Reading(3000, 2)>>)>>,
                    <<Meter(TRUE, <<Reading(1500, 1)>>), Meter(TRUE, <<Reading(3000, 2)>>)>>}}

CurrentAnswers ==
    {[failed |-> TRUE, status |-> 0, body |-> CurrentBody("empty", <<>>, "")],
     [failed |-> FALSE, status |-> 500, body |-> CurrentBody("notjson", <<>>, "")]}
    \cup {[failed |-> FALSE, status |-> 200, body |-> b] : b \in CurrentBodies}

\* convert_timestamp_ms: int(value) / 1_000 seconds since the epoch
convert_timestamp_ms(ms) == (ms * TicksPerSecond) \div 1000

CurrentPower(value, expires) == [value |-> value, expires |-> expires]
NoPower == CurrentPower(0, 0)

\* get_current, lines 126-140: what it does with json_data
get_current_result(body) ==
    IF body.kind # "list" \/ Len(body.meters) # 1
    THEN [value |-> NoPower,
          exc |-> IF body.kind = "dict"
                  THEN IF body.error = "id500" THEN "EfergyServerError"
                       ELSE IF body.error = "bad token" THEN "EfergyInvalidTokenError"
                       ELSE IF body.error # "" THEN "EfergyAPIAccessError"
                       ELSE "EfergyUnknownError"
                  ELSE IF body.kind # "list" THEN "TypeError"
                  ELSE IF Len(body.meters) = 0 THEN "EfergyNoMeterError"
                  ELSE "EfergyMultipleMetersError"]
    ELSE LET meter_data == body.meters[1] IN
         IF ~meter_data.complete THEN [value |-> NoPower, exc |-> "EfergyDataclassError"]
         ELSE LET power == meter_data.data IN
              IF Len(power) # 1 \/ Len(power[1]) # 1
              THEN [value |-> NoPower, exc |-> "EfergyNoMeterReadingError"]
              ELSE LET reading == power[1][1] IN
                   [value |-> CurrentPower(reading.value,
                                 convert_timestamp_ms(reading.ms) + 30 * TicksPerSecond),
                    exc |-> None]

\* get_current, lines 86-140, without the cache around it
get_current(answer) ==
    IF Efergy_access_server_exc(answer) # None
    THEN [value |-> NoPower, exc |-> Efergy_access_server_exc(answer)]
    ELSE get_current_result(answer.body)

NoAnswer == [failed |-> TRUE, status |-> 0, body |-> CurrentBody("empty", <<>>, "")]
NoRead == [meter |-> 0, time |-> 0, answer |-> NoAnswer, hit |-> FALSE,
           exc |-> None, value |-> NoPower]
NoReads == [prior |-> NoRead, last |-> NoRead]

CurrentIdle ==
    /\ g_now = 0
    /\ g_func = wrapper_cache(0, CurrentTimeout)
    /\ g_last = NoReads
    /\ g_hist = [meter \in Meters |-> NoRead]
    /\ g_calls = 0

\* meter.get_current() while the server would answer `answer`
Efergy_get_current(meter, answer) ==
    /\ sys = "current"
    /\ g_calls < MaxReads
    /\ g_calls' = g_calls + 1
    /\ LET func == expire(g_func, g_now, CurrentTimeout)
           i == lru_find(func.entries, [self |-> meter])
           made == get_current(answer)
           read == [meter |-> meter, time |-> g_now, answer |-> answer, hit |-> i # 0,
                    exc |-> IF i # 0 THEN None ELSE made.exc,
                    value |-> IF i # 0 THEN func.entries[i].value ELSE made.value]
       IN  /\ g_func' = [func EXCEPT !.entries =
                            IF i # 0 THEN lru_touch(@, i)
                            ELSE IF made.exc # None THEN @
                            ELSE lru_store(@, [self |-> meter], made.value, DefaultMaxSize)]
           /\ g_last' = [prior |-> g_hist[meter], last |-> read]
           /\ g_hist' = [g_hist EXCEPT ![meter] = read]
    /\ UNCHANGED <<sys, g_now, evars, cvars, nvars, rvars>>

\* time passes for the meters, half a lifetime of the cache at once
Wait ==
    /\ sys = "current"
    /\ g_now < MaxWait
    /\ g_now' = g_now + CurrentTimeout \div 2
    /\ UNCHANGED <<sys, g_func, g_last, g_hist, g_calls, evars, cvars, nvars, rvars>>

CurrentNext ==
    \/ /\ g_calls < MaxReads
       /\ \E meter \in Meters, answer \in CurrentAnswers : Efergy_get_current(meter, answer)
    \/ Wait

(***************************************************************************)
(* netatmo.py: NetatmoClient.  A str that may be None is the string itself *)
(* or None; any other Optional value is <<>> for None and <<v>> for v.     *)
(***************************************************************************)
Nothing == <<>>
Some(v) == <<v>>

\* Python's `not x` for an Optional[str]: None and "" are both falsy
Falsy(x) == x = None \/ x = ""

\* NetatmoClient.__init__ and the class-level defaults
NetatmoClient ==
    [access_token |-> None, refresh_token |-> "refresh0",
     relay_id |-> None, thermostat_id |-> None,
     home_id |-> None, room_id |-> None, valve_id |-> None,
     thermostat_on |-> Nothing, boiler_on |-> Nothing,
     valve_on |-> Nothing, valve_percentage |-> Nothing]

IdFields == {"relay_id", "thermostat_id", "home_id", "room_id", "valve_id"}

(***************************************************************************)
(* What the Netatmo servers can answer to a POST: a transport failure, or  *)
(* a status with a text.  kind says what the text is: empty, not JSON,     *)
(* JSON of another shape than the dataclass asked for ("wrongshape"), or   *)
(* JSON of that shape ("ok"), whose content is data.                       *)
(***************************************************************************)
Answer(failed, status, kind, data) ==
    [failed |-> failed, status |-> status, kind |-> kind, data |-> data]

Unusable(data) ==
    {Answer(TRUE, 0, "empty", data), Answer(FALSE, 403, "empty", data),
     Answer(FALSE, 500, "notjson", data), Answer(FALSE, 200, "empty", data),
     Answer(FALSE, 200, "notjson", data), Answer(FALSE, 200, "wrongshape", data)}

\* the server of a behaviour that is about the historic series keeps to one
\* topology
Lean == sys \in {"historic", "series", "clients"}

Usable(datas) == {Answer(FALSE, 200, "ok", d) : d \in datas}

\* ---- /oauth2/token: _TokenRefreshResult
TokenResult(access_token, refresh_token) ==
    [access_token |-> access_token, refresh_token |-> refresh_token]
NoToken == TokenResult("", "")

\* the server hands out a token pair other than the one the client holds
Renewed(self) ==
    IF self.access_token = "access1" THEN TokenResult("access2", "refresh2")
    ELSE TokenResult("access1", "refresh1")

TokenAnswers(self) ==
    IF Lean
    THEN {Answer(FALSE, 400, "invalid_grant", NoToken)} \cup Usable({Renewed(self)})
    ELSE Unusable(NoToken)
            \cup {Answer(FALSE, 400, k, NoToken) :
                    k \in {"invalid_client", "invalid_grant", "notjson"}}
            \cup Usable({Renewed(self)})

\* ---- /getthermostatsdata: _ThermostatsData.body.devices
Measurement(temperature, setpoint_temp) ==
    [temperature |-> temperature, setpoint_temp |-> setpoint_temp]
Module(id, measured) == [id |-> id, measured |-> measured]
Device(id, modules) == [id |-> id, modules |-> modules]

ThermostatsDatas ==
    IF Lean
    THEN {<<Device("relay1", <<Module("therm1", Measurement(1, 2))>>)>>}
    ELSE {<<Device(ids[1], <<Module(ids[2], Measurement(ids[3], 2))>>)>> :
                ids \in {<<"relay1", "therm1", 1>>, <<"relay2", "therm2", 2>>,
                         <<"", "therm1", 1>>}}
         \cup {<<>>,
               <<Device("relay1", <<>>)>>,
               <<Device("relay1", <<Module("therm1", Measurement(1, 2)),
                                    Module("therm2", Measurement(1, 2))>>)>>,
               <<Device("relay1", <<Module("therm1", Measurement(1, 2))>>),
                 Device("relay2", <<Module("therm2", Measurement(1, 2))>>)>>}

ThermostatsAnswers ==
    (IF Lean THEN {Answer(FALSE, 403, "empty", <<>>)} ELSE Unusable(<<>>))
        \cup Usable(ThermostatsDatas)

\* ---- /homesdata: _HomesData.body.homes
RoomModule(id, type) == [id |-> id, type |-> type]
\* module_ids is Optional: None for a room without modules
Room(id, module_ids) == [id |-> id, module_ids |-> module_ids]
Home(id, rooms, modules) == [id |-> id, rooms |-> rooms, modules |-> modules]

HomesDatas ==
    IF Lean
    THEN {<<Home("home1", <<Room("room1", Some(<<"valve1">>))>>,
                 <<RoomModule("valve1", "NRV")>>)>>}
    ELSE {<<Home(ids[1], <<Room("room0", Some(<<"therm1">>)), Room(ids[2], Some(<<ids[3]>>))>>,
                 <<RoomModule("therm1", "NATherm1"), RoomModule(ids[3], "NRV")>>)>> :
                ids \in {<<"home1", "room1", "valve1">>, <<"home2", "room2", "valve2">>}}
         \cup {<<>>,
               <<Home("home1", <<>>, <<>>), Home("home2", <<>>, <<>>)>>,
               <<Home("home2", <<Room("room0", Some(<<"therm1">>))>>,
                      <<RoomModule("therm1", "NATherm1")>>)>>,
               <<Home("home2", <<Room("room1", Some(<<"valve1">>)), Room("room2", Some(<<"valve2">>))>>,
                      <<RoomModule("valve1", "NRV"), RoomModule("valve2", "NRV")>>)>>,
               <<Home("home2", <<Room("room0", Some(<<"therm1">>))>>,
                      <<RoomModule("valve2", "NRV")>>)>>,
               <<Home("home2", <<Room("room1", Some(<<"valve2">>)), Room("room2", Some(<<"valve2">>))>>,
                      <<RoomModule("valve2", "NRV")>>)>>,
               <<Home("home2", <<Room("room0", Nothing)>>,
                      <<RoomModule("valve2", "NRV")>>)>>}

HomesAnswers ==
    (IF Lean THEN {Answer(FALSE, 403, "empty", <<>>)} ELSE Unusable(<<>>))
        \cup Usable(HomesDatas)

\* ---- /homestatus: _HomeStatus.body.home
HomeStatusRoom(id, heating_power_request, measured, setpoint) ==
    [id |-> id, heating_power_request |-> heating_power_request,
     therm_measured_temperature |-> measured, therm_setpoint_temperature |-> setpoint]
HomeStatusModule(type, boiler_status) == [type |-> type, boiler_status |-> boiler_status]
HomeStatusEntry(rooms, modules) == [rooms |-> rooms, modules |-> modules]
NoHomeStatus == HomeStatusEntry(<<>>, <<>>)

HomeStatusDatas ==
    {HomeStatusEntry(<<HomeStatusRoom("room1", p, m, 2)>>,
                     <<HomeStatusModule("NRV", Nothing), HomeStatusModule("NATherm1", b)>>) :
        <<p, m, b>> \in {<<0, 1, Some(TRUE)>>, <<100, 2, Some(FALSE)>>,
                         <<0, 1, Nothing>>}}
    \cup {HomeStatusEntry(<<HomeStatusRoom("room2", 0, 1, 2)>>,
                          <<HomeStatusModule("NATherm1", Some(TRUE))>>),
          HomeStatusEntry(<<HomeStatusRoom("room1", 0, 1, 2)>>, <<>>),
          HomeStatusEntry(<<HomeStatusRoom("room1", 0, 1, 2)>>,
                          <<HomeStatusModule("NATherm1", Some(TRUE)),
                            HomeStatusModule("NATherm1", Some(TRUE))>>)}

HomeStatusAnswers == Unusable(NoHomeStatus) \cup Usable(HomeStatusDatas)

\* ---- /setthermpoint, /setroomthermpoint: _SetpointChange.status
SetpointAnswers == Unusable("") \cup Usable({"ok", "failed"})

\* ---- /getmeasure: _MeasurementData.body, a dict from a timestamp (whole
\* seconds) to a list of values; here the set of its items
Item(time, values) == [time |-> time, values |-> values]

ValueLists == {<<v>> : v \in 1 .. MaxSum} \cup {<<>>, <<1, 1>>}

\* the dicts of at most n items with keys among the timestamps `times`
RECURSIVE Dicts(_, _)
Dicts(times, n) ==
    IF n = 0 \/ times = {} THEN {{}}
    ELSE LET t == CHOOSE x \in times : TRUE
             rest == Dicts(times \ {t}, n)
             fewer == Dicts(times \ {t}, n - 1)
         IN  rest \cup {d \cup {Item(t, vs)} : d \in fewer, vs \in ValueLists}

(***************************************************************************)
(* NetatmoClient: what each method does with a decoded answer.  A method   *)
(* returns the client as it leaves it and the exception it raises, if any. *)
(***************************************************************************)
Outcome(self, exc) == [self |-> self, exc |-> exc]

\* (a slip: the renewed access token is not kept)
renewal_drops_token(self, answer) ==
    IF answer.failed \/ answer.status >= 400 THEN Outcome(self, "NetatmoConnectionError")
    ELSE IF answer.kind # "ok" THEN Outcome(self, "NetatmoJSONError")
    ELSE Outcome([self EXCEPT !.refresh_token = answer.data.refresh_token], None)

\* (a slip: a refusal of the refresh is not told from other failures)
renewal_unclassified(self, answer) ==
    IF answer.failed \/ answer.status >= 400 THEN Outcome(self, "NetatmoConnectionError")
    ELSE IF answer.kind \in {"empty", "notjson"} THEN Outcome(self, "NetatmoJSONError")
    ELSE IF answer.kind # "ok" THEN Outcome(self, "NetatmoDataclassError")
    ELSE Outcome([self EXCEPT !.access_token = answer.data.access_token,
                              !.refresh_token = answer.data.refresh_token], None)

\* (a slip: the rotated refresh token is not kept)
renewal_keeps_refresh_token(self, answer) ==
    IF answer.failed THEN Outcome(self, "NetatmoConnectionError")
    ELSE IF answer.status = 400 /\ answer.kind = "invalid_client"
    THEN Outcome(self, "NetatmoInvalidClientError")
    ELSE IF answer.status = 400 /\ answer.kind = "invalid_grant"
    THEN Outcome(self, "NetatmoInvalidTokenError")
    ELSE IF answer.status >= 400 THEN Outcome(self, "NetatmoConnectionError")
    ELSE IF answer.kind \in {"empty", "notjson"} THEN Outcome(self, "NetatmoJSONError")
    ELSE IF answer.kind # "ok" THEN Outcome(self, "NetatmoDataclassError")
    ELSE Outcome([self EXCEPT !.access_token = answer.data.access_token], None)

\* (a slip: a refused grant makes the client forget its access token)
renewal_forgets(self, answer) ==
    IF answer.failed THEN Outcome(self, "NetatmoConnectionError")
    ELSE IF answer.status = 400 /\ answer.kind = "invalid_client"
    THEN Outcome(self, "NetatmoInvalidClientError")
    ELSE IF answer.status = 400 /\ answer.kind = "invalid_grant"
    THEN Outcome([self EXCEPT !.access_token = None], "NetatmoInvalidTokenError")
    ELSE IF answer.status >= 400 THEN Outcome(self, "NetatmoConnectionError")
    ELSE IF answer.kind \in {"empty", "notjson"} THEN Outcome(self, "NetatmoJSONError")
    ELSE IF answer.kind # "ok" THEN Outcome(self, "NetatmoDataclassError")
    ELSE Outcome([self EXCEPT !.access_token = answer.data.access_token,
                              !.refresh_token = answer.data.refresh_token], None)

\* _renewal, on the answer to the POST to /oauth2/token
renewal(self, answer) ==
    IF answer.failed THEN Outcome(self, "NetatmoConnectionError")
    ELSE IF answer.status = 400 /\ answer.kind = "invalid_client"
    THEN Outcome(self, "NetatmoInvalidClientError")
    ELSE IF answer.status = 400 /\ answer.kind = "invalid_grant"
    THEN Outcome(self, "NetatmoInvalidTokenError")
    ELSE IF answer.status >= 400 THEN Outcome(self, "NetatmoConnectionError")
    ELSE IF answer.kind \in {"empty", "notjson"} THEN Outcome(self, "NetatmoJSONError")
    ELSE IF answer.kind # "ok" THEN Outcome(self, "NetatmoDataclassError")
    ELSE Outcome([self EXCEPT !.access_token = answer.data.access_token,
                              !.refresh_token = answer.data.refresh_token], None)

\* (a slip: a request denied again is renewed again)
access_server_response_again(answer, retried) ==
    IF answer.failed THEN "NetatmoConnectionError"
    ELSE IF answer.status = 403 THEN "renew"
    ELSE IF answer.status >= 400 THEN "NetatmoConnectionError"
    ELSE IF answer.kind = "empty" THEN "NetatmoUnknownError"
    ELSE IF answer.kind = "notjson" THEN "NetatmoJSONError"
    ELSE IF answer.kind # "ok" THEN "NetatmoDataclassError"
    ELSE None

\* (a slip: every error status is taken for an expired token)
access_server_response_renewing(answer, retried) ==
    IF answer.failed THEN "NetatmoConnectionError"
    ELSE IF answer.status >= 400 /\ ~retried THEN "renew"
    ELSE IF answer.status >= 400 THEN "NetatmoConnectionError"
    ELSE IF answer.kind = "empty" THEN "NetatmoUnknownError"
    ELSE IF answer.kind = "notjson" THEN "NetatmoJSONError"
    ELSE IF answer.kind # "ok" THEN "NetatmoDataclassError"
    ELSE None

\* _access_server, on the answer to a POST to the endpoint: "renew" when the
\* token is renewed and the request sent again, the exception raised, or None
\* when the decoded data is returned
access_server_response(answer, retried) ==
    IF answer.failed THEN "NetatmoConnectionError"
    ELSE IF answer.status = 403 /\ ~retried THEN "renew"
    ELSE IF answer.status >= 400 THEN "NetatmoConnectionError"
    ELSE IF answer.kind = "empty" THEN "NetatmoUnknownError"
    ELSE IF answer.kind = "notjson" THEN "NetatmoJSONError"
    ELSE IF answer.kind # "ok" THEN "NetatmoDataclassError"
    ELSE None

\* (a slip: of several relays the first is taken)
get_thermostat_data_first(self, devices) ==
    IF Len(devices) = 0 THEN Outcome(self, "NetatmoRelayError")
    ELSE LET relay == devices[1] IN
         IF Len(relay.modules) = 0 \/ Len(relay.modules) > 1
         THEN Outcome(self, "NetatmoThermostatError")
         ELSE LET thermostat == relay.modules[1] IN
              Outcome([self EXCEPT
                          !.relay_id = relay.id,
                          !.thermostat_id = thermostat.id,
                          !.thermostat_on = Some(thermostat.measured.temperature
                                                    < thermostat.measured.setpoint_temp)],
                      None)

\* _get_thermostat_data, lines 515-525
get_thermostat_data(self, devices) ==
    IF Len(devices) = 0 \/ Len(devices) > 1 THEN Outcome(self, "NetatmoRelayError")
    ELSE LET relay == devices[1] IN
         IF Len(relay.modules) = 0 \/ Len(relay.modules) > 1
         THEN Outcome(self, "NetatmoThermostatError")
         ELSE LET thermostat == relay.modules[1] IN
              Outcome([self EXCEPT
                          !.relay_id = relay.id,
                          !.thermostat_id = thermostat.id,
                          !.thermostat_on = Some(thermostat.measured.temperature
                                                    < thermostat.measured.setpoint_temp)],
                      None)

IsValve(module) == module.type = "NRV"
IsBoiler(module) == module.type = "NATherm1"

\* _get_home_data, lines 534-546
get_home_data(self, homes) ==
    IF Len(homes) # 1 THEN Outcome(self, "NetatmoValveError")
    ELSE LET user_home == homes[1]
             self1 == [self EXCEPT !.home_id = user_home.id]
             valves == SelectSeq(user_home.modules, IsValve)
         IN  IF Len(valves) # 1 THEN Outcome(self1, "NetatmoValveError")
             ELSE LET self2 == [self1 EXCEPT !.valve_id = valves[1].id]
                      HasValve(room) ==
                          /\ room.module_ids # Nothing
                          /\ \E i \in 1 .. Len(room.module_ids[1]) :
                                room.module_ids[1][i] = self2.valve_id
                      room == SelectSeq(user_home.rooms, HasValve)
                  IN  \* `self._valve_id in room.module_ids` with module_ids None
                      IF \E i \in 1 .. Len(user_home.rooms) :
                            user_home.rooms[i].module_ids = Nothing
                      THEN Outcome(self2, "TypeError")
                      ELSE IF Len(room) # 1 THEN Outcome(self2, "NetatmoValveError")
                      ELSE Outcome([self2 EXCEPT !.room_id = room[1].id], None)

\* (a slip: the room is not looked up by its id)
get_boiler_status_any_room(self, home) ==
    LET room == home.rooms
        boiler == SelectSeq(home.modules, IsBoiler)
    IN  IF Len(room) # 1 THEN Outcome(self, "NetatmoBoilerError")
        ELSE IF Len(boiler) # 1 THEN Outcome(self, "NetatmoBoilerError")
        ELSE IF boiler[1].boiler_status = Nothing THEN Outcome(self, "NetatmoBoilerError")
        ELSE Outcome([self EXCEPT
                        !.boiler_on = boiler[1].boiler_status,
                        !.valve_on = Some(room[1].therm_setpoint_temperature
                                            > room[1].therm_measured_temperature),
                        !.valve_percentage = Some(room[1].heating_power_request)],
                     None)

\* _get_boiler_status, lines 555-568
get_boiler_status(self, home) ==
    LET IsRoom(r) == self.room_id = r.id
        room == SelectSeq(home.rooms, IsRoom)
        boiler == SelectSeq(home.modules, IsBoiler)
    IN  IF Len(room) # 1 THEN Outcome(self, "NetatmoBoilerError")
        ELSE IF Len(boiler) # 1 THEN Outcome(self, "NetatmoBoilerError")
        ELSE IF boiler[1].boiler_status = Nothing THEN Outcome(self, "NetatmoBoilerError")
        ELSE Outcome([self EXCEPT
                        !.boiler_on = boiler[1].boiler_status,
                        !.valve_on = Some(room[1].therm_setpoint_temperature
                                            > room[1].therm_measured_temperature),
                        !.valve_percentage = Some(room[1].heating_power_request)],
                     None)

DeviceTemperature(measured_at, value, device) ==
    [measured_at |-> measured_at, value |-> value, device |-> device]
NoTemperature == DeviceTemperature(0, 0, "")

\* get_measurement, lines 593-599: the value returned and the exception raised
get_measurement_result(body, thermostat) ==
    IF Cardinality(body) # 1
    THEN [value |-> NoTemperature, exc |-> "NetatmoMeasurementError"]
    ELSE LET item == CHOOSE i \in body : TRUE IN
         IF Len(item.values) # 1
         THEN [value |-> NoTemperature, exc |-> "NetatmoMeasurementError"]
         ELSE [value |-> DeviceTemperature(item.time, item.values[1],
                                           IF thermostat THEN "THERMOSTAT" ELSE "VALVE"),
               exc |-> None]

HistoricTemperature(value, start, end) == [value |-> value, start |-> start, end |-> end]

\* sorted(data.body.keys())
RECURSIVE sorted(_)
sorted(keys) ==
    IF keys = {} THEN <<>>
    ELSE LET first == CHOOSE k \in keys : \A other \in keys : k <= other
         IN  <<first>> \o sorted(keys \ {first})

Lookup(body, key) == (CHOOSE item \in body : item.time = key).values

\* (a slip: a timestamp without exactly one value is passed over)
RECURSIVE historic_entries_skipping(_, _)
historic_entries_skipping(body, keys) ==
    IF keys = <<>> THEN [entries |-> <<>>, exc |-> None]
    ELSE LET values == Lookup(body, Head(keys))
             rest == historic_entries_skipping(body, Tail(keys))
         IN  IF Len(values) # 1 THEN rest
             ELSE [entries |-> <<[date |-> Head(keys), value |-> values[1]]>> \o rest.entries,
                   exc |-> rest.exc]

\* get_historic, lines 659-663: the entries of one answer, in key order
RECURSIVE historic_entries(_, _)
historic_entries(body, keys) ==
    IF keys = <<>> THEN [entries |-> <<>>, exc |-> None]
    ELSE LET values == Lookup(body, Head(keys)) IN
         IF Len(values) # 1 THEN [entries |-> <<>>, exc |-> "NetatmoMeasurementError"]
         ELSE LET rest == historic_entries(body, Tail(keys)) IN
              [entries |-> <<[date |-> Head(keys), value |-> values[1]]>> \o rest.entries,
               exc |-> rest.exc]

ChunkLimit == 1024      \* records the API returns for one request

\* get_historic, lines 622-639: the sub-ranges requested from the API
RECURSIVE split_intervals(_, _, _)
split_intervals(start_30, end_30, expected_minutes) ==
    IF expected_minutes > ChunkLimit * 30
    THEN LET custom_end_30 == add_minutes(start_30, ChunkLimit * 30)
         IN  <<<<start_30, custom_end_30>>>>
                \o split_intervals(custom_end_30, end_30, expected_minutes - ChunkLimit * 30)
    ELSE <<<<start_30, end_30>>>>

Reverse(seq) == [i \in 1 .. Len(seq) |-> seq[Len(seq) + 1 - i]]
Last(seq) == seq[Len(seq)]
Front(seq) == SubSeq(seq, 1, Len(seq) - 1)

\* (a slip: the entry is looked at before it is taken)
RECURSIVE pop_entries_peeking(_, _, _, _)
pop_entries_peeking(entries, entry_date, previous_temperature, current_end) ==
    IF entries # <<>> /\ Last(entries).date < current_end
    THEN pop_entries_peeking(Front(entries), Last(entries).date, Last(entries).value,
                             current_end)
    ELSE [entries |-> entries, previous_temperature |-> previous_temperature, exc |-> None]

\* get_historic, lines 679-680: `while entry_date < current_end:` around
\* `entry_date, previous_temperature = entries.pop()`
RECURSIVE pop_entries(_, _, _, _)
pop_entries(entries, entry_date, previous_temperature, current_end) ==
    IF entry_date < current_end
    THEN IF entries = <<>>
         THEN [entries |-> entries, previous_temperature |-> previous_temperature,
               exc |-> "IndexError"]
         ELSE pop_entries(Front(entries), Last(entries).date, Last(entries).value,
                          current_end)
    ELSE [entries |-> entries, previous_temperature |-> previous_temperature, exc |-> None]

\* get_historic, lines 676-682: one pass through the body of the loop
fill_step(current, minutes, entries, previous_temperature, response) ==
    LET current_end == add_minutes(current, minutes)
        popped == IF entries # <<>>
                  THEN pop_entries(entries, Last(entries).date,
                                   previous_temperature, current_end)
                  ELSE [entries |-> entries,
                        previous_temperature |-> previous_temperature, exc |-> None]
    IN  [entries |-> popped.entries,
         previous_temperature |-> popped.previous_temperature,
         response |-> IF popped.exc # None THEN response
                      ELSE Append(response,
                                  HistoricTemperature(popped.previous_temperature,
                                                      current, current_end)),
         exc |-> popped.exc]

\* the passes `while current < end:` makes from `current` on
Passes(current, end, minutes) ==
    LET width == add_minutes(current, minutes) - current
    IN  (end - current + width - 1) \div width

\* get_historic, lines 675-682: `while current < end:`.  The passes are made
\* in order, those up to `middle` first and the others from what they left.
RECURSIVE fill(_, _, _, _, _, _)
fill(current, end, minutes, entries, previous_temperature, response) ==
    IF ~(current < end)
    THEN [entries |-> entries, previous_temperature |-> previous_temperature,
          response |-> response, exc |-> None]
    ELSE IF Passes(current, end, minutes) = 1
    THEN fill_step(current, minutes, entries, previous_temperature, response)
    ELSE LET middle == add_minutes(current, minutes * (Passes(current, end, minutes) \div 2))
             first == fill(current, middle, minutes, entries, previous_temperature, response)
         IN  IF first.exc # None THEN first
             ELSE fill(middle, end, minutes, first.entries, first.previous_temperature,
                       first.response)

\* (a slip: the length of the series is not asserted)
reconstruct_unasserted(entries, start, end, minutes) ==
    IF Len(entries) < 1 THEN [response |-> <<>>, exc |-> "NetatmoMeasurementError"]
    ELSE LET filled == fill(start, end, minutes, Reverse(entries), entries[1].value, <<>>)
         IN  IF filled.exc # None THEN [response |-> <<>>, exc |-> filled.exc]
             ELSE [response |-> filled.response, exc |-> None]

\* get_historic, lines 665-685: the series built from the entries collected
reconstruct(entries, start, end, minutes) ==
    IF Len(entries) < 1 THEN [response |-> <<>>, exc |-> "NetatmoMeasurementError"]
    ELSE LET filled == fill(start, end, minutes, Reverse(entries), entries[1].value, <<>>)
         IN  IF filled.exc # None THEN [response |-> <<>>, exc |-> filled.exc]
             ELSE IF Len(filled.response) * minutes # in_minutes(end, start)
             THEN [response |-> <<>>, exc |-> "AssertionError"]
             ELSE [response |-> filled.response, exc |-> None]

(***************************************************************************)
(* NetatmoClient: the public operations.  An operation runs from its call  *)
(* to the first request it sends, and then from each answer of the server  *)
(* to the next request, until it returns or raises.  What is left of it is *)
(* n_todo, a list of steps: an `access` step evaluates an identifier       *)
(* property into the payload, an `invoke` step calls a private _get_...    *)
(* method, a `check` step is set_device's validation, a `post` step is the *)
(* operation's own request.                                                *)
(***************************************************************************)
Step(do, id, param, endpoint) == [do |-> do, id |-> id, param |-> param, endpoint |-> endpoint]
Access(param, id) == Step("access", id, param, "")
Invoke(endpoint) == Step("invoke", "", "", endpoint)
Post(endpoint) == Step("post", "", "", endpoint)
Check == Step("check", "", "", "")

Absent == "absent"
Pending == -1      \* the status of a request not answered yet
NoPayload ==
    [return |-> Absent, device_id |-> Absent, module_id |-> Absent, home_id |-> Absent, room_id |-> Absent,
     date_begin |-> 0, date_end |-> 0, mode |-> Absent, temp |-> Nothing, minutes |-> Nothing]

Op(name, thermostat, start, end, minutes, mode, temperature) ==
    [name |-> name, thermostat |-> thermostat, start |-> start, end |-> end,
     minutes |-> minutes, mode |-> mode, temperature |-> temperature]
NoOp == Op("", TRUE, 0, 0, Nothing, "", Nothing)

NoLocals == [start |-> 0, end |-> 0, intervals |-> <<>>, chunk |-> 0, entries |-> <<>>,
             bodies |-> <<>>]
NoReturn == [status |-> "none", exc |-> None, value |-> <<>>]
\* what one call of _access_server did: the POSTs to the endpoint with the
\* token each carried and the status answered, the POSTs to /token, how the
\* call ended and which POST's decoded answer it returned
NoAccess ==
    [endpoint |-> "", posts |-> <<>>, refreshes |-> <<>>, state |-> "none", exc |-> None,
     result |-> 0]

\* the discovery method behind each identifier property
Discovery(id) ==
    IF id \in {"relay_id", "thermostat_id"} THEN "/getthermostatsdata" ELSE "/homesdata"

ThermostatTimeout == 15     \* @timed_lru_cache(15) of thermostat_on
BoilerTimeout == 15         \* @timed_lru_cache(15) of boiler_on, valve_on, valve_percentage
MeasurementTimeout == 240   \* @timed_lru_cache(seconds=4 * 60) of get_measurement

CachedFunctions ==
    {"thermostat_on", "boiler_on", "valve_on", "valve_percentage", "get_measurement"}

lifetime(name) ==
    IF name = "thermostat_on" THEN ThermostatTimeout
    ELSE IF name = "get_measurement" THEN MeasurementTimeout
    ELSE BoilerTimeout

\* the arguments of a cached call, as the key of functools.lru_cache
CacheKey(op) ==
    [self |-> 1, thermostat |-> IF op.name = "get_measurement" THEN op.thermostat ELSE TRUE]

ModuleProperty(thermostat) == IF thermostat THEN "thermostat_id" ELSE "valve_id"

\* the steps of an operation, in the order in which the code takes them
Steps(op) ==
    CASE op.name \in IdFields -> <<Access("return", op.name)>>
      [] op.name = "thermostat_on" -> <<Invoke("/getthermostatsdata")>>
      [] op.name \in {"boiler_on", "valve_on", "valve_percentage"} -> <<Invoke("/homestatus")>>
      [] op.name = "get_measurement" ->
            <<Access("device_id", "relay_id"),
              Access("module_id", ModuleProperty(op.thermostat)), Post("/getmeasure")>>
      [] op.name = "get_historic" ->
            <<Access("device_id", "relay_id"),
              Access("module_id", ModuleProperty(op.thermostat)), Post("/getmeasure")>>
      [] op.name = "set_device" ->
            <<Access("device_id", "relay_id"),
              Access("module_id", ModuleProperty(op.thermostat))>>
            \o (IF op.thermostat THEN <<>>
                ELSE <<Access("home_id", "home_id"), Access("room_id", "room_id")>>)
            \o <<Check, Post(IF op.thermostat THEN "/setthermpoint" ELSE "/setroomthermpoint")>>

\* a request as the server sees it, but for the token it carries
Request(endpoint, payload) == [endpoint |-> endpoint, payload |-> payload]

\* _access_server, lines 482-488: the first POST to the endpoint
access_server(m, endpoint, payload) ==
    LET access_token == IF Falsy(m.self.access_token) THEN "" ELSE m.self.access_token
    IN  [m EXCEPT !.pc = "post1",
                  !.endpoint = endpoint,
                  !.sent = payload,
                  !.reqs = Append(@, Request(endpoint, payload)),
                  !.acc = [endpoint |-> endpoint,
                           posts |-> <<[access_token |-> access_token, status |-> Pending,
                                        usable |-> FALSE]>>,
                           refreshes |-> <<>>, state |-> "open", exc |-> None,
                           result |-> 0]]

raise(m, exc) ==
    [m EXCEPT !.pc = "idle", !.todo = <<>>,
              !.ret = [status |-> "raised", exc |-> exc, value |-> <<>>],
              !.acc = IF @.state = "open" THEN [@ EXCEPT !.state = "raised", !.exc = exc]
                      ELSE @]

return(m, value) ==
    [m EXCEPT !.pc = "idle", !.todo = <<>>,
              !.ret = [status |-> "returned", exc |-> None, value |-> value]]

\* set_device, lines 723-742: the mode, duration and temperature it sends
setpoint(op) ==
    LET off == ~op.thermostat /\ op.mode = "off"
        mode == IF off THEN "manual" ELSE op.mode
        minutes == IF off /\ (op.minutes = Nothing \/ op.minutes = Some(0))
                   THEN Some(24 * 60) ELSE op.minutes
        temperature == IF off THEN Some(7) ELSE op.temperature
    IN  [mode |-> mode, minutes |-> minutes, temperature |-> temperature,
         exc |-> IF mode \in {"manual", "max"}
                    /\ (minutes = Nothing \/ minutes = Some(0) \/ minutes[1] < 0)
                 THEN "NetatmoInvalidDurationError"
                 ELSE IF mode = "manual"
                    /\ (temperature = Nothing \/ temperature = Some(0)
                        \/ ~(7 <= temperature[1] /\ temperature[1] <= 30))
                 THEN "NetatmoInvalidTemperatureError"
                 ELSE None]

\* what the operation returns once no step is left
result(op, m) ==
    CASE op.name \in IdFields -> m.payload.return
      [] op.name = "thermostat_on" -> m.self.thermostat_on
      [] op.name = "boiler_on" -> m.self.boiler_on
      [] op.name = "valve_on" -> m.self.valve_on
      [] op.name = "valve_percentage" -> m.self.valve_percentage
      [] op.name = "get_historic" ->
            reconstruct(m.loc.entries, m.loc.start, m.loc.end, op.minutes[1])

\* the operation runs on until it sends a request, returns or raises
RECURSIVE run(_, _)
run(op, m) ==
    IF m.todo = <<>>
    THEN IF op.name = "get_historic"
         THEN LET series == result(op, m)
              IN  IF series.exc # None THEN raise(m, series.exc)
                  ELSE return(m, series.response)
         ELSE return(m, result(op, m))
    ELSE LET step == Head(m.todo) IN
         CASE step.do = "access" ->
                IF Falsy(m.self[step.id])
                THEN access_server(m, Discovery(step.id), NoPayload)
                ELSE run(op, [m EXCEPT !.payload[step.param] = m.self[step.id],
                                       !.todo = Tail(@)])
           [] step.do = "invoke" ->
                access_server(m, step.endpoint,
                              IF step.endpoint = "/homestatus"
                              THEN [NoPayload EXCEPT !.home_id = m.self.home_id]
                              ELSE NoPayload)
           [] step.do = "check" ->
                LET sent == setpoint(op)
                    kept == IF op.thermostat THEN m.payload
                            ELSE [m.payload EXCEPT !.device_id = Absent,
                                                   !.module_id = Absent]
                IN  IF sent.exc # None THEN raise(m, sent.exc)
                    ELSE run(op, [m EXCEPT
                            !.payload = [kept EXCEPT
                                !.mode = sent.mode,
                                !.minutes = IF sent.mode \in {"manual", "max"}
                                            THEN sent.minutes ELSE Nothing,
                                !.temp = IF sent.mode = "manual" THEN sent.temperature
                                         ELSE Nothing],
                            !.todo = Tail(@)])
           [] step.do = "post" ->
                IF op.name = "get_historic"
                THEN LET interval == m.loc.intervals[m.loc.chunk] IN
                     access_server(m, step.endpoint,
                        [m.payload EXCEPT !.date_begin = int_timestamp(interval[1]),
                                          !.date_end = int_timestamp(interval[2])])
                ELSE access_server(m, step.endpoint, m.payload)

\* the operation goes on after a private _get_... method returned: the
\* property that called it returns the attribute, whatever it now holds
resume(op, m) ==
    LET step == Head(m.todo) IN
    IF step.do = "access"
    THEN run(op, [m EXCEPT !.payload[step.param] = m.self[step.id], !.todo = Tail(@)])
    ELSE run(op, [m EXCEPT !.todo = Tail(@)])

\* the caller of _access_server goes on with the decoded data
deliver(op, m, data) ==
    CASE m.endpoint = "/getthermostatsdata" ->
            LET out == get_thermostat_data(m.self, data) IN
            IF out.exc # None
            THEN raise([m EXCEPT !.self = out.self, !.got.devices = Some(data)], out.exc)
            ELSE resume(op, [m EXCEPT !.self = out.self, !.found.thermostat = TRUE,
                                      !.got.devices = Some(data)])
      [] m.endpoint = "/homesdata" ->
            LET out == get_home_data(m.self, data) IN
            IF out.exc # None
            THEN raise([m EXCEPT !.self = out.self, !.got.homes = Some(data)], out.exc)
            ELSE resume(op, [m EXCEPT !.self = out.self, !.found.home = TRUE,
                                      !.got.homes = Some(data)])
      [] m.endpoint = "/homestatus" ->
            LET out == get_boiler_status(m.self, data) IN
            IF out.exc # None THEN raise([m EXCEPT !.self = out.self], out.exc)
            ELSE resume(op, [m EXCEPT !.self = out.self])
      [] m.endpoint = "/getmeasure" /\ op.name = "get_measurement" ->
            LET measured == get_measurement_result(data, op.thermostat) IN
            IF measured.exc # None THEN raise(m, measured.exc)
            ELSE return(m, measured.value)
      [] m.endpoint = "/getmeasure" /\ op.name = "get_historic" ->
            LET found == historic_entries(data, sorted({item.time : item \in data})) IN
            IF found.exc # None
            THEN raise([m EXCEPT !.loc.bodies = Append(@, data)], found.exc)
            ELSE LET more == m.loc.chunk < Len(m.loc.intervals) IN
                 run(op, [m EXCEPT
                            !.loc.entries = @ \o found.entries,
                            !.loc.bodies = Append(@, data),
                            !.loc.chunk = IF more THEN @ + 1 ELSE @,
                            !.todo = IF more THEN Steps(op) ELSE <<>>])
      [] m.endpoint \in {"/setthermpoint", "/setroomthermpoint"} ->
            return(m, data = "ok")

\* the answer to the request in flight arrives
receive(op, m, answer) ==
    IF m.pc = "token"
    THEN LET out == renewal(m.self, answer)
             logged == [m EXCEPT
                          !.self = out.self,
                          !.acc.refreshes[Len(m.acc.refreshes)].status = answer.status,
                          !.acc.refreshes[Len(m.acc.refreshes)].usable = (out.exc = None),
                          !.acc.refreshes[Len(m.acc.refreshes)].error = answer.kind,
                          !.acc.refreshes[Len(m.acc.refreshes)].granted =
                                IF answer.kind = "ok" THEN answer.data.access_token ELSE ""]
         IN  IF out.exc # None THEN raise(logged, out.exc)
             ELSE [logged EXCEPT
                     !.pc = "post2",
                     !.reqs = Append(@, Request(m.endpoint, m.sent)),
                     !.acc.posts = Append(@, [access_token |-> out.self.access_token,
                                              status |-> Pending, usable |-> FALSE])]
    ELSE LET outcome == access_server_response(answer, m.pc = "post2")
             logged == [m EXCEPT
                          !.acc.posts[Len(m.acc.posts)].status = answer.status,
                          !.acc.posts[Len(m.acc.posts)].usable = (outcome = None)]
         IN  IF outcome = "renew"
             THEN [logged EXCEPT
                     !.pc = "token",
                     !.reqs = Append(@, Request("/token", NoPayload)),
                     !.acc.refreshes = Append(@, [refresh_token |-> m.self.refresh_token,
                                                  status |-> Pending, usable |-> FALSE,
                                                  error |-> "", granted |-> ""])]
             ELSE IF outcome # None THEN raise(logged, outcome)
             ELSE deliver(op, [logged EXCEPT !.pc = "idle", !.acc.state = "returned",
                                             !.acc.result = Len(m.acc.posts)],
                          answer.data)

(***************************************************************************)
(* The calls made on a NetatmoClient and the answers of its servers.       *)
(***************************************************************************)

Properties == IdFields \cup {"thermostat_on", "boiler_on", "valve_on", "valve_percentage"}

HistoricCalls ==
    {Op("get_historic", th, start, end, Some(minutes), "", Nothing) :
        th \in BOOLEAN, start \in Stamps, end \in Stamps, minutes \in Minutes}

\* ---- the series of the docstring of get_historic and of the repository's
\* test: ranges of 1 to SeriesSteps steps of 5 minutes from 06:00 on, with up
\* to three observations at the starts of some steps, and the call of the test
\* with the observations of the test, or the first few of them
SeriesSteps == 13
SeriesStart == DateTime(6, 0, 0, 0)
StepStart(k) == add_minutes(SeriesStart, 5 * k)
SeriesCall(steps) ==
    Op("get_historic", TRUE, SeriesStart, StepStart(steps), Some(5), "", Nothing)
SeriesPositions == {0, 2, 3, 6, 10}
SeriesValues == {3, 4, 7}
SeriesDicts ==
    UNION { { {Item(StepStart(k), <<f[k]>>) : k \in ps} : f \in [ps -> SeriesValues] } :
            ps \in {qs \in SUBSET SeriesPositions : 1 <= Cardinality(qs) /\ Cardinality(qs) <= 3} }

TestCall ==
    Op("get_historic", TRUE, SeriesStart, DateTime(11, 58, 7, 0), Some(5), "", Nothing)
TestValues == <<187, 187, 188, 189, 190, 193, 193, 195, 196, 197, 197, 197>>
TestDict(n) == {Item(add_minutes(SeriesStart, 15 + 30 * (i - 1)), <<TestValues[i]>>) : i \in 1 .. n}

SeriesCalls == {SeriesCall(steps) : steps \in 1 .. SeriesSteps} \cup {TestCall}

NetatmoCalls ==
    IF sys = "series" THEN SeriesCalls
    ELSE IF Both
    THEN {op \in HistoricCalls : /\ op.thermostat /\ op.minutes = Some(30)
                                 /\ {op.start, op.end} \subseteq WholeMinutes}
    ELSE IF Lean
    THEN {op \in HistoricCalls : op.thermostat /\ InBounds(op.start, op.end, op.minutes[1])}
    ELSE {Op(name, TRUE, 0, 0, Nothing, "", Nothing) : name \in Properties}
         \cup {Op("get_measurement", th, 0, 0, Nothing, "", Nothing) : th \in BOOLEAN}
         \cup {op \in HistoricCalls :
                  /\ op.start = DateTime(0, 7, 0, 0) /\ op.minutes = Some(30)
                  /\ op.thermostat \/ op.end <= op.start
                  /\ op.end \in {DateTime(0, 0, 0, 0), DateTime(0, 7, 0, 0),
                                 DateTime(0, 52, 0, 0)}}
         \cup {Op("set_device", th, 0, 0, args[1], args[2], args[3]) :
                  th \in BOOLEAN,
                  args \in {<<Some(60), "manual", Some(20)>>, <<Nothing, "manual", Some(20)>>,
                            <<Some(60), "manual", Some(31)>>, <<Nothing, "off", Nothing>>}
                           \cup (IF sys = "access"
                                 THEN {<<Some(0), "manual", Some(20)>>,
                                       <<Some(0 - 2), "manual", Nothing>>,
                                       <<Nothing, "max", Nothing>>,
                                       <<Some(60), "max", Nothing>>,
                                       <<Some(60), "manual", Nothing>>,
                                       <<Some(60), "manual", Some(3)>>}
                                 ELSE {})}

\* the timestamps the API may report an observation at: whole seconds
ObservedAt == {DateTime(0, mi, 0, 0) : mi \in {0, 7, 52}}

MeasureAnswers(op) ==
    IF sys = "series"
    THEN Usable(IF op = TestCall THEN {TestDict(n) : n \in 1 .. Len(TestValues)}
                ELSE SeriesDicts)
    ELSE
    Unusable({})
    \cup Usable(IF op.name = "get_historic" /\ Lean /\ ~Both THEN Dicts(ObservedAt, MaxObserved)
                ELSE Dicts({DateTime(0, 7, 0, 0)}, 1)
                        \cup {{Item(DateTime(0, 7, 0, 0), <<1>>),
                               Item(DateTime(0, 15, 0, 0), <<2>>)}})

\* what the server behind the request in flight may answer
Answers(op, m) ==
    CASE m.pc = "token" -> TokenAnswers(m.self)
      [] m.endpoint = "/getthermostatsdata" -> ThermostatsAnswers
      [] m.endpoint = "/homesdata" -> HomesAnswers
      [] m.endpoint = "/homestatus" -> HomeStatusAnswers
      [] m.endpoint = "/getmeasure" -> MeasureAnswers(op)
      [] OTHER -> SetpointAnswers

\* the topology the discovery methods of the operation were handed
NoGot == [devices |-> Nothing, homes |-> Nothing]

NoRun ==
    [self |-> NetatmoClient, pc |-> "idle", todo |-> <<>>, endpoint |-> "",
     payload |-> NoPayload, sent |-> NoPayload, loc |-> NoLocals, ret |-> NoReturn, reqs |-> <<>>,
     acc |-> NoAccess, found |-> [thermostat |-> FALSE, home |-> FALSE], got |-> NoGot]

NetatmoIdle ==
    /\ n_run = NoRun
    /\ n_op = NoOp
    /\ n_pre = [self |-> NetatmoClient, found |-> NoRun.found, hit |-> FALSE]
    /\ n_now = 0
    /\ n_cache = [name \in CachedFunctions |-> wrapper_cache(0, lifetime(name))]
    /\ n_ops = 0

\* (a slip: an empty range passes the validation)
get_historic_lax(op, m) ==
    IF op.end < op.start THEN raise(m, "ValueError")
    ELSE LET start == round_date(op.start, op.minutes[1], TRUE)
             end == round_date(op.end, op.minutes[1], FALSE)
             start_30 == round_date(start, 30, TRUE)
             end_30 == round_date(end, 30, FALSE)
         IN  run(op, [m EXCEPT
                        !.loc = [start |-> start, end |-> end,
                                 intervals |-> split_intervals(start_30, end_30,
                                                    in_minutes(end_30, start_30)),
                                 chunk |-> 1, entries |-> <<>>, bodies |-> <<>>]])

\* get_historic, lines 614-639: validation, alignment and request planning
get_historic(op, m) ==
    IF op.end <= op.start THEN raise(m, "ValueError")
    ELSE LET start == round_date(op.start, op.minutes[1], TRUE)
             end == round_date(op.end, op.minutes[1], FALSE)
             start_30 == round_date(start, 30, TRUE)
             end_30 == round_date(end, 30, FALSE)
         IN  run(op, [m EXCEPT
                        !.loc = [start |-> start, end |-> end,
                                 intervals |-> split_intervals(start_30, end_30,
                                                    in_minutes(end_30, start_30)),
                                 chunk |-> 1, entries |-> <<>>, bodies |-> <<>>]])

\* a timed_lru_cache function keeps what it returned
cached(cache, op, m) ==
    IF op.name \in CachedFunctions /\ m.ret.status = "returned"
    THEN [cache EXCEPT ![op.name].entries =
                lru_store(@, CacheKey(op), m.ret.value, DefaultMaxSize)]
    ELSE cache

\* A public operation is called; it runs up to its first request.
Netatmo_call(op) ==
    /\ n_ops' = n_ops + 1
    /\ n_op' = op
    /\ LET fresh == [n_run EXCEPT !.todo = Steps(op), !.payload = NoPayload,
                                  !.sent = NoPayload,
                                  !.loc = NoLocals, !.ret = NoReturn, !.reqs = <<>>,
                                  !.endpoint = "", !.acc = NoAccess, !.got = NoGot]
           func == IF op.name \in CachedFunctions
                   THEN expire(n_cache[op.name], n_now, lifetime(op.name))
                   ELSE wrapper_cache(0, 0)
           i == lru_find(func.entries, CacheKey(op))
       IN  /\ n_pre' = [self |-> n_run.self, found |-> n_run.found, hit |-> i # 0]
           /\ IF i # 0
              THEN /\ n_run' = return(fresh, func.entries[i].value)
                   /\ n_cache' = [n_cache EXCEPT
                                    ![op.name] = [func EXCEPT !.entries = lru_touch(@, i)]]
              ELSE LET m == IF op.name = "get_historic" THEN get_historic(op, fresh)
                            ELSE run(op, fresh)
                       cache == IF op.name \in CachedFunctions
                                THEN [n_cache EXCEPT ![op.name] = func] ELSE n_cache
                   IN  /\ n_run' = m
                       /\ n_cache' = cached(cache, op, m)
    /\ UNCHANGED <<sys, n_now, evars, cvars, gvars, rvars>>

\* The server answers the request in flight; the operation runs on to its
\* next request, or to its end.
Netatmo_answer(answer) ==
    /\ LET m == receive(n_op, n_run, answer)
       IN  /\ n_run' = m
           /\ n_cache' = cached(n_cache, n_op, m)
    /\ UNCHANGED <<sys, n_op, n_pre, n_now, n_ops, evars, cvars, gvars, rvars>>

\* time passes between two operations
Elapse(seconds) ==
    /\ n_now' = n_now + seconds
    /\ UNCHANGED <<sys, n_run, n_op, n_pre, n_cache, n_ops, evars, cvars, gvars, rvars>>

QueryNext ==
    \/ /\ sys \in {"netatmo", "access", "historic", "series", "clients"} /\ n_run.pc = "idle"
       /\ n_ops < (IF sys = "netatmo" THEN MaxOps ELSE 1)
       /\ \E op \in NetatmoCalls : Netatmo_call(op)
    \/ /\ sys \in {"netatmo", "access", "historic", "series", "clients"} /\ n_run.pc # "idle"
       /\ \E answer \in Answers(n_op, n_run) : Netatmo_answer(answer)

NetatmoNext ==
    \/ QueryNext
    \/ /\ sys = "netatmo" /\ n_run.pc = "idle" /\ n_now < MaxClock
       /\ 0 < n_ops /\ n_ops < MaxOps
       /\ Elapse(ThermostatTimeout)

(***************************************************************************)
(* Specifications: one per object exercised.                               *)
(***************************************************************************)
EfergyInit == sys = "efergy" /\ EfergyIdle /\ CacheIdle /\ NetatmoIdle /\ CurrentIdle /\ RoundIdle
SpecEfergy == EfergyInit /\ [][EfergyNext]_vars

CacheInit == sys = "cache" /\ CacheIdle /\ EfergyIdle /\ NetatmoIdle /\ CurrentIdle /\ RoundIdle
SpecCache == CacheInit /\ [][CacheNext]_vars

CurrentInit ==
    sys = "current" /\ CurrentIdle /\ EfergyIdle /\ CacheIdle /\ NetatmoIdle /\ RoundIdle
SpecCurrent == CurrentInit /\ [][CurrentNext]_vars

RoundInit ==
    /\ sys = "round" /\ EfergyIdle /\ CacheIdle /\ NetatmoIdle /\ CurrentIdle
    /\ r_args \in [date : RoundDates, minutes : Minutes]
    /\ r_out = NoRounding
SpecRound == RoundInit /\ [][RoundNext]_vars

NetatmoInit == sys = "netatmo" /\ NetatmoIdle /\ EfergyIdle /\ CacheIdle /\ CurrentIdle /\ RoundIdle
SpecNetatmo == NetatmoInit /\ [][NetatmoNext]_vars

\* one operation on a new client, with everything its servers can answer
AccessInit == sys = "access" /\ NetatmoIdle /\ EfergyIdle /\ CacheIdle /\ CurrentIdle /\ RoundIdle
SpecAccess == AccessInit /\ [][QueryNext]_vars

\* one historic query on a new client, with everything the API can report
HistoricInit == sys = "historic" /\ NetatmoIdle /\ EfergyIdle /\ CacheIdle /\ CurrentIdle /\ RoundIdle
SpecHistoric == HistoricInit /\ [][QueryNext]_vars

\* one historic query on a new client: the series of the docstring and of
\* the repository's test
SeriesInit == sys = "series" /\ NetatmoIdle /\ EfergyIdle /\ CacheIdle /\ CurrentIdle /\ RoundIdle
SpecSeries == SeriesInit /\ [][QueryNext]_vars

\* a program that holds one client of each kind
ClientsInit == sys = "clients" /\ NetatmoIdle /\ EfergyIdle /\ CacheIdle /\ CurrentIdle /\ RoundIdle
ClientsNext == EfergyNext \/ QueryNext
SpecClients == ClientsInit /\ [][ClientsNext]_vars

(***************************************************************************)
(* Properties.                                                             *)
(***************************************************************************)

\* the operation called last has run to its end
Done == n_run.pc = "idle" /\ n_run.ret.status # "none"
Returned(name) == n_op.name = name /\ n_run.pc = "idle" /\ n_run.ret.status = "returned"
Raised(exc) == n_run.pc = "idle" /\ n_run.ret.status = "raised" /\ n_run.ret.exc = exc

\* the decoded answers of /getmeasure that get_historic went through
Bodies == n_run.loc.bodies
Malformed(body) == \E item \in body : Len(item.values) # 1

\* the observations get_historic collected, oldest first
Observations == n_run.loc.entries
AlignedStart == round_date(n_op.start, n_op.minutes[1], TRUE)
AlignedEnd == round_date(n_op.end, n_op.minutes[1], FALSE)
StepEnd(k) == add_minutes(AlignedStart, k * n_op.minutes[1])

\* the value the forward-fill rule gives step k
ForwardFill(k) ==
    LET early == {i \in 1 .. Len(Observations) : Observations[i].date < StepEnd(k)}
    IN  IF early = {} THEN Observations[1].value
        ELSE Observations[CHOOSE i \in early : \A j \in early : j <= i].value

\* C1: every step k of the series NetatmoClient.get_historic returns carries
\* the value of the latest observation made strictly before the end of step k,
\* or the value of the earliest observation when none was made that early.
C1_ForwardFillRule ==
    Returned("get_historic") =>
        \A k \in 1 .. Len(n_run.ret.value) : n_run.ret.value[k].value = ForwardFill(k)

\* the same for the first step alone, which is as far as the code keeps to it
C1_FirstStep ==
    (Returned("get_historic") /\ Len(n_run.ret.value) >= 1) =>
        n_run.ret.value[1].value \in {Observations[i].value : i \in 1 .. Len(Observations)}

\* a date rounded down and up to a multiple of `minutes` within its hour
RoundDown(date, minutes) ==
    (date \div (minutes * TicksPerMinute)) * (minutes * TicksPerMinute)
RoundUp(date, minutes) == RoundDown(date + minutes * TicksPerMinute - 1, minutes)

\* C2: the list NetatmoClient.get_historic returns has exactly
\* (round_up(end) - round_down(start)) / granularity records.
C2_LengthOfRoundedRange ==
    Returned("get_historic") =>
        Len(n_run.ret.value) * n_op.minutes[1] * TicksPerMinute
            = RoundUp(n_op.end, n_op.minutes[1]) - RoundDown(n_op.start, n_op.minutes[1])

\* the same with the range as round_date aligns it, which is what the
\* assert at the end of get_historic lets out
C2_HistoricLength ==
    Returned("get_historic") =>
        Len(n_run.ret.value) * n_op.minutes[1] * TicksPerMinute = AlignedEnd - AlignedStart

\* a series of several steps returned for a start and an end that both had
\* to be aligned
C2_Witness ==
    /\ Returned("get_historic") /\ Len(n_run.ret.value) >= 2
    /\ AlignedStart # n_op.start /\ AlignedEnd # n_op.end

\* C3: when the first POST of an _access_server call is answered 403 and the
\* token refresh succeeds, the endpoint is posted to exactly twice, the second
\* time with the access token the refresh granted, /token is posted to exactly
\* once, and when the server accepts the retry the call returns the decoded
\* answer of the retry.
C3_RefreshThenRetry ==
    LET acc == n_run.acc IN
    (/\ Len(acc.posts) >= 1 /\ acc.posts[1].status = 403
     /\ Len(acc.refreshes) >= 1 /\ acc.refreshes[1].usable) =>
        /\ Len(acc.posts) = 2 /\ Len(acc.refreshes) = 1
        /\ acc.posts[2].access_token = acc.refreshes[1].granted
        /\ acc.posts[2].access_token # acc.posts[1].access_token
        /\ acc.posts[2].usable => acc.state = "returned" /\ acc.result = 2 /\ acc.exc = None
        /\ acc.state = "returned" => acc.posts[2].usable /\ acc.result = 2

\* a retry accepted after a refresh, by a client that already held a token
C3_Witness ==
    LET acc == n_run.acc IN
    /\ Len(acc.posts) = 2 /\ acc.posts[1].status = 403 /\ acc.posts[1].access_token = "access1"
    /\ Len(acc.refreshes) = 1 /\ acc.refreshes[1].usable
    /\ acc.posts[2].usable /\ acc.state = "returned" /\ acc.posts[2].access_token = "access2"

\* C4: one _access_server call attempts at most one token refresh and posts
\* to its endpoint at most twice; when the retry is answered 403 the call
\* raises NetatmoConnectionError.
C4_AtMostOneRefresh ==
    LET acc == n_run.acc IN
    /\ Len(acc.refreshes) <= 1
    /\ Len(acc.posts) <= 2
    /\ (Len(acc.posts) = 2 /\ acc.posts[2].status = 403) =>
            /\ acc.state = "raised" /\ acc.exc = "NetatmoConnectionError"
            /\ Raised("NetatmoConnectionError")

\* the retry was denied
C4_Witness ==
    LET acc == n_run.acc IN
    /\ Len(acc.posts) = 2 /\ acc.posts[2].status = 403
    /\ Len(acc.refreshes) = 1 /\ acc.refreshes[1].usable

\* the discovery method that resolves an identifier
Group(id) == IF id \in {"relay_id", "thermostat_id"} THEN "thermostat" ELSE "home"

\* C5: reading an identifier accessor after the discovery query of its group
\* has succeeded returns the stored value and issues no server request.
C5_ResolvedReadIssuesNoRequest ==
    (n_op.name \in IdFields /\ n_pre.found[Group(n_op.name)]) =>
        /\ n_run.reqs = <<>>
        /\ Returned(n_op.name)
        /\ n_run.ret.value = n_pre.self[n_op.name]

\* the same for the identifiers that are not the empty string
C5_NonEmpty ==
    (n_op.name \in IdFields /\ n_pre.found[Group(n_op.name)]
        /\ n_pre.self[n_op.name] # "") => C5_ResolvedReadIssuesNoRequest

\* C6: an identifier that is resolved when an operation is called keeps its
\* value throughout the operation.
C6_ResolvedIdsNeverChange ==
    \A id \in IdFields : ~Falsy(n_pre.self[id]) => n_run.self[id] = n_pre.self[id]

\* C7: get_historic called with end <= start raises ValueError and sends no
\* request, on either client; the Efergy generator raises it on the first
\* pull.
C7_EmptyRangeSendsNothing ==
    /\ (n_op.name = "get_historic" /\ n_op.end <= n_op.start) =>
            /\ Raised("ValueError")
            /\ n_run.reqs = <<>>
            /\ n_run.acc = NoAccess
            /\ n_run.self = n_pre.self
    /\ (e_pc # "none" /\ e_args.end <= e_args.start) =>
            /\ e_req = <<>> /\ e_out = <<>>
            /\ e_pc = "created" => e_exc = None
            /\ e_pc # "created" => e_pc = "raised" /\ e_exc = "ValueError"

\* both clients were asked for an empty range; the generator has been pulled
C7_Witness ==
    /\ n_op.name = "get_historic" /\ n_op.end = n_op.start /\ Raised("ValueError")
    /\ e_pc = "raised" /\ e_args.end <= e_args.start /\ e_exc = "ValueError"

\* a pull of the generator ended with an exception after its request was sent
FailedPull == e_pc = "raised" /\ Len(e_ans) > Len(e_out)

\* C11 (as stated): no request is issued before the first pull, and the
\* number of requests issued is the number of records pulled, plus one only
\* while a pull is in progress.
C11_OneRequestPerRecord ==
    /\ e_pc \in {"none", "created"} => e_req = <<>>
    /\ Len(e_req) = Len(e_out) + (IF e_pc = "waiting" THEN 1 ELSE 0)

\* C11: no request is issued before the first pull, and the number of
\* requests issued is the number of records pulled, plus one while a pull is
\* in progress or after a pull whose request was answered by a failure; a
\* consumer holding k records has caused exactly k requests.
C11_LazyRequests ==
    /\ e_pc \in {"none", "created"} => e_req = <<>>
    /\ Len(e_req) = Len(e_out) + (IF e_pc = "waiting" \/ FailedPull THEN 1 ELSE 0)
    /\ e_pc = "yielded" => Len(e_req) = Len(e_out) /\ Len(e_ans) = Len(e_out)

\* a pull failed after two records had been pulled
C11_Witness ==
    FailedPull /\ Len(e_out) = 2 /\ Len(e_req) = 3

\* C12: a pause of 1/20 second precedes every request but the first and
\* follows the yield of the record before it, so that a query of N intervals
\* takes at least N - 1 pauses.
C12_PauseBetweenRequests ==
    /\ Len(e_req) >= 1 => e_sleeps >= Len(e_req) - 1
    /\ e_sleeps <= Len(e_out)
    /\ e_pc = "exhausted" => e_sleeps >= Len(e_out) - 1

\* a query of three intervals has been consumed
C12_Witness ==
    e_pc = "exhausted" /\ Len(e_out) = 3 /\ Len(e_req) = 3 /\ e_sleeps >= 2

\* the i-th answer is a history whose duration is not that of the interval
WrongDuration(i) ==
    /\ Efergy_access_server_exc(e_ans[i]) = None
    /\ e_ans[i].body.kind = "history"
    /\ e_ans[i].body.duration # e_args.minutes * 60

\* C19: an answer that reports a duration other than granularity * 60 ends
\* the stream at its interval: no record is yielded for it, the records of
\* the earlier intervals stay, and no further request is issued.
C19_WrongDurationEndsStream ==
    \A i \in 1 .. Len(e_ans) :
        WrongDuration(i) =>
            /\ i = Len(e_ans) /\ Len(e_req) = i /\ Len(e_out) = i - 1
            /\ e_pc = "raised" /\ e_exc = "AssertionError"

\* the second answer had the wrong duration
C19_Witness ==
    /\ Len(e_ans) = 2 /\ WrongDuration(2) /\ Len(e_out) = 1 /\ e_pc = "raised"

\* the date round_date was called with lies on a boundary of the granularity:
\* its seconds are zero and its minute is a multiple of the minutes
OnBoundary ==
    second_of(r_args.date) = 0 /\ minute_of(r_args.date) % r_args.minutes = 0
Granule == r_args.minutes * TicksPerMinute

\* C25: rounding down is idempotent: round_date(round_date(T, G, down), G,
\* down) = round_date(T, G, down) for every granularity G and timestamp T.
C25_RoundDownIdempotent ==
    r_out.done => r_out.down_down = r_out.down

\* a date off the boundary, with a sub-second part, was rounded down
C25_Witness ==
    /\ r_out.done /\ r_out.down # r_args.date /\ microsecond_of(r_args.date) # 0
    /\ r_out.down_down = r_out.down

\* C26 as stated: on a boundary both roundings return T, off a boundary they
\* differ by strictly less than G minutes.
C26_LessThanGranule ==
    r_out.done =>
        IF OnBoundary THEN r_out.up = r_args.date /\ r_out.down = r_args.date
        ELSE r_out.up - r_out.down < Granule

\* C26: on a boundary both roundings return T, off a boundary they differ by
\* exactly G minutes.
C26_ExactlyGranule ==
    r_out.done =>
        IF OnBoundary THEN r_out.up = r_args.date /\ r_out.down = r_args.date
        ELSE r_out.up - r_out.down = Granule

\* 10:52:37 rounded to 10 minutes: 10:50:00 and 11:00:00
C26_Witness ==
    /\ r_out.done /\ r_args = [date |-> DateTime(10, 52, 37, 0), minutes |-> 10]
    /\ r_out.down = DateTime(10, 50, 0, 0) /\ r_out.up = DateTime(11, 0, 0, 0)

\* C27: rounding down returns the greatest boundary of the granularity that
\* is not after T, rounding up the least boundary that is not before T.
C27_RoundsToBoundaries ==
    r_out.done =>
        /\ r_out.down = RoundDown(r_args.date, r_args.minutes)
        /\ r_out.up = RoundUp(r_args.date, r_args.minutes)

\* the same for a date without a sub-second part
C27_WholeSeconds ==
    microsecond_of(r_args.date) = 0 => C27_RoundsToBoundaries

\* the run of the generator keeps to the intervals of a call with the
\* arguments start, end and e_args.minutes
Follows(start, end) ==
    LET plan == Efergy_intervals(start, end, e_args.minutes) IN
    /\ Len(e_req) <= Len(plan)
    /\ \A i \in 1 .. Len(e_req) :
            e_req[i] = EfergyParams(plan[i].previous, plan[i].current)
    /\ \A i \in 1 .. Len(e_out) :
            e_out[i].start = plan[i].previous /\ e_out[i].end = plan[i].current
    /\ e_pc = "exhausted" => Len(e_out) = Len(plan)

\* C24: get_historic(start, end, G) issues the same requests and yields the
\* same records as get_historic(round_down(start, G), round_up(end, G), G).
C24_SameAsAligned ==
    (e_pc \notin {"none", "created"} /\ e_args.end > e_args.start) =>
        Follows(RoundDown(e_args.start, e_args.minutes), RoundUp(e_args.end, e_args.minutes))

\* the same for a start and an end without a sub-second part
C24_WholeSeconds ==
    (microsecond_of(e_args.start) = 0 /\ microsecond_of(e_args.end) = 0)
        => C24_SameAsAligned

\* the run keeps to the intervals of its own arguments
C24_OwnArguments ==
    (e_pc \notin {"none", "created"} /\ e_args.end > e_args.start) =>
        Follows(e_args.start, e_args.end)

\* set_device is called with a mode that needs a duration and without a
\* strictly positive one, or with mode MANUAL, a duration and no temperature
\* from 7 to 30
InvalidDuration ==
    /\ n_op.name = "set_device" /\ n_op.mode \in {"manual", "max"}
    /\ n_op.minutes = Nothing \/ n_op.minutes[1] <= 0
InvalidTemperature ==
    /\ n_op.name = "set_device" /\ n_op.mode = "manual" /\ ~InvalidDuration
    /\ \/ n_op.temperature = Nothing
       \/ n_op.temperature[1] < 7 \/ n_op.temperature[1] > 30
SetRequests ==
    SelectSeq(n_run.reqs,
              LAMBDA request : request.endpoint \in {"/setthermpoint", "/setroomthermpoint"})

\* C28: set_device with an invalid duration fails with
\* NetatmoInvalidDurationError, with a valid duration and an invalid
\* temperature with NetatmoInvalidTemperatureError, and in both cases nothing is
\* sent to /setthermpoint or /setroomthermpoint.
C28_SetDeviceValidation ==
    /\ (InvalidDuration \/ InvalidTemperature) => SetRequests = <<>>
    /\ (Done /\ InvalidDuration) => Raised("NetatmoInvalidDurationError")
    /\ (Done /\ InvalidTemperature) => Raised("NetatmoInvalidTemperatureError")

\* the same once the identifiers set_device reads are all resolved
C28_AfterDiscovery ==
    /\ (InvalidDuration \/ InvalidTemperature) => SetRequests = <<>>
    /\ (/\ Done /\ n_run.found.thermostat
        /\ n_op.thermostat \/ n_run.found.home) =>
            /\ InvalidDuration => Raised("NetatmoInvalidDurationError")
            /\ InvalidTemperature => Raised("NetatmoInvalidTemperatureError")

\* the token refreshes attempted during the operation
TokenRequests == SelectSeq(n_run.reqs, LAMBDA request : request.endpoint = "/token")

\* C30: during one public operation at most one token refresh is attempted,
\* whatever the server answers.
C30_OneRefreshPerOperation == Len(TokenRequests) <= 1

\* every refresh of an operation belongs to another of its _access_server
\* calls
C30_OneRefreshPerRequest ==
    /\ Len(n_run.acc.refreshes) <= 1
    /\ \A i \in 1 .. Len(n_run.reqs) :
            n_run.reqs[i].endpoint = "/token" =>
                i > 1 /\ n_run.reqs[i - 1].endpoint # "/token"

\* get_historic was called for a range of `steps` steps and answered the
\* observations `dict`, and has ended
Scenario(call, dict) == n_op = call /\ Done /\ Bodies = <<dict>>
ValuesOf(response) == [k \in 1 .. Len(response) |-> response[k].value]
Times(n, value) == [k \in 1 .. n |-> value]

\* C21: with the observations (t0, 4), (t3, 7), (t6, 3) at the starts of the
\* steps 0, 3 and 6 of a range of 13 steps, get_historic returns 13 records
\* with the values 4,4,4,7,7,7,3,3,3,3,3,3,3.
C21_ReconstructionScenario ==
    Scenario(SeriesCall(SeriesSteps),
             {Item(StepStart(0), <<4>>), Item(StepStart(3), <<7>>), Item(StepStart(6), <<3>>)}) =>
        /\ Returned("get_historic")
        /\ ValuesOf(n_run.ret.value) = Times(3, 4) \o Times(3, 7) \o Times(7, 3)

\* C22: with observations valued 4, 7 and 3 in the steps 2, 6 and 10 of a
\* range of 13 steps, get_historic returns the values 4444447777333.
C22_DocstringExample ==
    Scenario(SeriesCall(SeriesSteps),
             {Item(StepStart(2), <<4>>), Item(StepStart(6), <<7>>), Item(StepStart(10), <<3>>)}) =>
        /\ Returned("get_historic")
        /\ ValuesOf(n_run.ret.value) = Times(6, 4) \o Times(4, 7) \o Times(3, 3)

\* C23: with the twelve observations of the test and a request for 06:00:00
\* to 11:58:07 at 5 minutes, get_historic returns 72 records from 06:00 to
\* 12:00 valued 18.7 fifteen times, 18.9, 19.3 and 19.5 twelve times each and
\* 19.7 twenty-one times (the values are in tenths here).
C23_TestScenario ==
    Scenario(TestCall, TestDict(Len(TestValues))) =>
        /\ Returned("get_historic")
        /\ Len(n_run.ret.value) = 72
        /\ n_run.ret.value[1].start = DateTime(6, 0, 0, 0)
        /\ n_run.ret.value[72].end = DateTime(12, 0, 0, 0)
        /\ ValuesOf(n_run.ret.value) =
                Times(15, 187) \o Times(12, 189) \o Times(12, 193) \o Times(12, 195)
                    \o Times(21, 197)

\* the call of the test has returned
C23_Witness ==
    /\ Scenario(TestCall, TestDict(Len(TestValues))) /\ Returned("get_historic")
    /\ Len(Observations) = 12

\* C29: get_historic returns a series whenever the answers hold at least one
\* observation in total and every timestamp carries exactly one value.
C29_CompletesNormally ==
    (/\ n_op.name = "get_historic" /\ Done
     /\ Len(Bodies) >= 1 /\ Len(Bodies) = Len(n_run.loc.intervals)
     /\ \E i \in 1 .. Len(Bodies) : Bodies[i] # {}
     /\ \A i \in 1 .. Len(Bodies) : ~Malformed(Bodies[i])) =>
        Returned("get_historic")

\* with such answers get_historic returns, or ends where the list of entries
\* runs out
C29_ReturnsOrRunsOut ==
    (/\ n_op.name = "get_historic" /\ Done
     /\ Len(Bodies) >= 1 /\ Len(Bodies) = Len(n_run.loc.intervals)
     /\ \E i \in 1 .. Len(Bodies) : Bodies[i] # {}
     /\ \A i \in 1 .. Len(Bodies) : ~Malformed(Bodies[i])) =>
        Returned("get_historic") \/ Raised("IndexError")

\* the refresh of the _access_server call was answered, and refused
Refused(status, error) ==
    /\ Len(n_run.acc.refreshes) = 1
    /\ n_run.acc.refreshes[1].status = status /\ n_run.acc.refreshes[1].error = error
RefreshFailed ==
    /\ Len(n_run.acc.refreshes) = 1
    /\ \/ n_run.acc.refreshes[1].status = 0
       \/ n_run.acc.refreshes[1].status >= 400

\* the operation ended with the exception and its request was sent once
Surfaced(exc) ==
    /\ Raised(exc) /\ n_run.acc.state = "raised" /\ n_run.acc.exc = exc
    /\ Len(n_run.acc.posts) = 1

\* C16: a token refresh answered 400 invalid_client surfaces as
\* NetatmoInvalidClientError, 400 invalid_grant as NetatmoInvalidTokenError, any
\* other error status or a transport failure as NetatmoConnectionError; the
\* request that was denied is not sent again.
C16_RefreshFailureClassified ==
    /\ Refused(400, "invalid_client") => Surfaced("NetatmoInvalidClientError")
    /\ Refused(400, "invalid_grant") => Surfaced("NetatmoInvalidTokenError")
    /\ (/\ RefreshFailed /\ ~Refused(400, "invalid_client")
        /\ ~Refused(400, "invalid_grant")) => Surfaced("NetatmoConnectionError")

\* the refresh token was refused
C16_Witness ==
    /\ Refused(400, "invalid_grant") /\ Surfaced("NetatmoInvalidTokenError")
    /\ n_run.acc.posts[1].status = 403

\* the relays _get_thermostat_data was handed by this operation
Relays == n_run.got.devices[1]

\* C17: _get_thermostat_data succeeds only on exactly one relay holding
\* exactly one module; zero or several relays fail as NetatmoRelayError, one
\* relay with zero or several modules as NetatmoThermostatError.
C17_ThermostatCardinality ==
    n_run.got.devices # Nothing =>
        /\ Len(Relays) # 1 => Raised("NetatmoRelayError") /\ ~n_run.found.thermostat
        /\ (Len(Relays) = 1 /\ Len(Relays[1].modules) # 1) =>
                Raised("NetatmoThermostatError") /\ ~n_run.found.thermostat
        /\ (Len(Relays) = 1 /\ Len(Relays[1].modules) = 1) =>
                /\ n_run.found.thermostat
                /\ n_run.self.relay_id = Relays[1].id
                /\ n_run.self.thermostat_id = Relays[1].modules[1].id
                /\ ~Raised("NetatmoRelayError") /\ ~Raised("NetatmoThermostatError")

\* two relays were answered
C17_Witness ==
    /\ n_run.got.devices # Nothing /\ Len(Relays) = 2
    /\ Raised("NetatmoRelayError")

\* the homes _get_home_data was handed by this operation, the valves of a
\* home and the rooms of a home that list a module
GotHomes == n_run.got.homes[1]
Valves(home) == SelectSeq(home.modules, IsValve)
Lists(room, id) ==
    /\ room.module_ids # Nothing
    /\ \E i \in 1 .. Len(room.module_ids[1]) : room.module_ids[1][i] = id
RoomsOf(home, id) == SelectSeq(home.rooms, LAMBDA room : Lists(room, id))
OneOfEach ==
    /\ Len(GotHomes) = 1 /\ Len(Valves(GotHomes[1])) = 1
    /\ Len(RoomsOf(GotHomes[1], Valves(GotHomes[1])[1].id)) = 1

\* C18: _get_home_data succeeds only on exactly one home with exactly one NRV
\* module that exactly one room lists, and then home_id, valve_id and room_id
\* are the ids of that home, valve and room; every other answer fails as
\* NetatmoValveError.
C18_HomeCardinality ==
    n_run.got.homes # Nothing =>
        /\ ~OneOfEach => Raised("NetatmoValveError") /\ ~n_run.found.home
        /\ OneOfEach =>
                /\ n_run.found.home
                /\ n_run.self.home_id = GotHomes[1].id
                /\ n_run.self.valve_id = Valves(GotHomes[1])[1].id
                /\ n_run.self.room_id = RoomsOf(GotHomes[1], n_run.self.valve_id)[1].id

\* the same when every room of the answer carries a list of modules
C18_RoomsWithModules ==
    (/\ n_run.got.homes # Nothing
     /\ \A h \in 1 .. Len(GotHomes) : \A i \in 1 .. Len(GotHomes[h].rooms) :
            GotHomes[h].rooms[i].module_ids # Nothing) => C18_HomeCardinality

\* the sub-ranges get_historic asked /getmeasure for, in the order of the
\* requests, in seconds
Measures == SelectSeq(n_run.reqs, LAMBDA request : request.endpoint = "/getmeasure")
SubRange(i) == [begin |-> Measures[i].payload.date_begin, end |-> Measures[i].payload.date_end]
Planned == n_op.name = "get_historic" /\ Len(Measures) = Len(n_run.loc.intervals)
                                      /\ Len(Measures) >= 1

\* C13: the sub-ranges get_historic requests are consecutive, the first begins
\* at start rounded down to 30 minutes, the last ends at end rounded up to 30
\* minutes, none is empty and none spans more than 1024 units of 30 minutes.
C13_ChunkPlan ==
    Planned =>
        /\ SubRange(1).begin = int_timestamp(RoundDown(n_op.start, 30))
        /\ SubRange(Len(Measures)).end = int_timestamp(RoundUp(n_op.end, 30))
        /\ \A i \in 1 .. Len(Measures) :
                /\ SubRange(i).begin < SubRange(i).end
                /\ SubRange(i).end - SubRange(i).begin <= ChunkLimit * 30 * 60
                /\ i > 1 => SubRange(i).begin = SubRange(i - 1).end

\* the same for a start and an end without a sub-second part
C13_WholeSeconds ==
    (microsecond_of(n_op.start) = 0 /\ microsecond_of(n_op.end) = 0) => C13_ChunkPlan

\* C14: the records get_historic returns are in chronological order, the
\* first starts at start rounded down to the granularity, the last ends at end
\* rounded up to the granularity, every record is `minutes` wide and starts
\* where the record before it ends.
C14_ContiguousRecords ==
    Returned("get_historic") =>
        LET response == n_run.ret.value
            width == n_op.minutes[1] * TicksPerMinute
        IN  /\ Len(response) >= 1
            /\ response[1].start = RoundDown(n_op.start, n_op.minutes[1])
            /\ response[Len(response)].end = RoundUp(n_op.end, n_op.minutes[1])
            /\ \A k \in 1 .. Len(response) :
                    /\ response[k].end - response[k].start = width
                    /\ k > 1 => response[k].start = response[k - 1].end

\* the same for a start and an end without a sub-second part
C14_WholeSeconds ==
    (microsecond_of(n_op.start) = 0 /\ microsecond_of(n_op.end) = 0) => C14_ContiguousRecords

\* C15: get_historic raises NetatmoMeasurementError, and returns no series,
\* once an answer holds a timestamp with a number of values other than one, and
\* when the answers to all its requests hold no observation at all.
C15_MalformedMeasurement ==
    n_op.name = "get_historic" =>
        /\ (\E i \in 1 .. Len(Bodies) : Malformed(Bodies[i])) =>
                Raised("NetatmoMeasurementError") /\ n_run.ret.value = <<>>
        /\ (/\ Len(Bodies) >= 1 /\ Len(Bodies) = Len(n_run.loc.intervals)
            /\ \A i \in 1 .. Len(Bodies) : Bodies[i] = {}) =>
                Raised("NetatmoMeasurementError") /\ n_run.ret.value = <<>>

\* an answer with a well-formed observation and one carrying two values
C15_Witness ==
    /\ n_op.name = "get_historic" /\ Len(Bodies) = 1
    /\ \E good \in Bodies[1], bad \in Bodies[1] : Len(good.values) = 1 /\ Len(bad.values) = 2
    /\ Raised("NetatmoMeasurementError")

\* the call of get_current made last, and the one before it on that meter
LastRead == g_last.last
PriorRead == g_last.prior

\* C20: a get_current made right after a successful get_current on the same
\* meter reports what the server answers at that time: it raises the error
\* of that answer (EfergyUnknownError for an empty body, ...) or returns the
\* reading of that answer, and not the earlier reading.
C20_CurrentReportsServer ==
    (/\ LastRead.meter # 0 /\ PriorRead.meter = LastRead.meter
     /\ PriorRead.exc = None /\ PriorRead.time = LastRead.time) =>
        /\ LastRead.exc = get_current(LastRead.answer).exc
        /\ LastRead.value = get_current(LastRead.answer).value

\* the same for a call that found the cache expired
C20_AfterExpiry ==
    (LastRead.meter # 0 /\ ~LastRead.hit) =>
        /\ LastRead.exc = get_current(LastRead.answer).exc
        /\ LastRead.value = get_current(LastRead.answer).value

\* C8: a call of a timed_lru_cache function made at a time >= the stored
\* expiry drops every cached entry, whatever its key, sets the expiry to
\* now + lifetime and invokes the underlying function; and a call never
\* returns a cached result computed before an expiry that has passed.
C8_ExpiredCallClearsCache ==
    /\ (c_last.key # NoKey /\ c_last.expired) =>
            /\ c_last.invoked
            /\ c_func.expiration = c_last.time + Lifetime
            /\ \A i \in 1 .. Len(c_func.entries) :
                    /\ c_func.entries[i].key = c_last.key
                    /\ c_func.entries[i].value.at = c_last.time
    /\ c_last.hit =>
            \A expiry \in c_expiries :
                ~(c_last.result.at < expiry /\ expiry <= c_last.time)

\* an expired call found two entries, one of them for its own key
C8_Witness ==
    /\ c_last.expired /\ c_last.before >= 2 /\ c_last.prior.known
    /\ c_last.time = c_last.prior.expiry

\* C9: a call that follows a successful call with the same arguments, is made
\* before the expiry stored by that call, and has fewer than maxsize other
\* keys called in between, returns that call's result and does not invoke the
\* underlying function; and no call returns a result computed for other
\* arguments.
C9_RepeatedCallIsServedFromCache ==
    /\ (c_last.prior.known /\ c_last.time < c_last.prior.expiry
            /\ Cardinality(c_last.prior.others) < MaxSize) =>
            /\ c_last.hit /\ ~c_last.invoked
            /\ c_last.result = c_last.prior.value
    /\ (c_last.key # NoKey /\ ~c_last.raised) => c_last.result.key = c_last.key

\* a hit at a later second, after a call with another key
C9_Witness ==
    /\ c_last.hit /\ c_last.prior.others # {}
    /\ c_last.time > c_last.result.at
    /\ \E i \in 1 .. Len(c_func.entries) :
            /\ c_func.entries[i].key.self = c_last.key.self
            /\ c_func.entries[i].key # c_last.key

\* C10: a fully consumed EfergyMeter.get_historic yields exactly
\* (round_up(end) - round_down(start)) / granularity records; record i covers
\* [start + i * G, start + (i + 1) * G) of the aligned range, carries the sum
\* of the i-th answer, and one request with these bounds was issued for it.
C10_EfergyOneRecordPerInterval ==
    e_pc = "exhausted" =>
        LET G == e_args.minutes * TicksPerMinute
            start == round_date(e_args.start, e_args.minutes, TRUE)
            end == round_date(e_args.end, e_args.minutes, FALSE)
        IN  /\ Len(e_out) * G = end - start
            /\ Len(e_req) = Len(e_out)
            /\ \A i \in 1 .. Len(e_out) :
                    /\ e_out[i].start = start + (i - 1) * G
                    /\ e_out[i].end = start + i * G
                    /\ e_out[i].value = e_ans[i].body.sum
                    /\ from_timestamp(e_req[i].fromTime) = e_out[i].start
                    /\ from_timestamp(e_req[i].toTime) = e_out[i].end

\* the same for calls whose start and end have no sub-second part
C10_WholeSeconds ==
    (microsecond_of(e_args.start) = 0 /\ microsecond_of(e_args.end) = 0)
        => C10_EfergyOneRecordPerInterval

\* the tokens the client holds, and the pairs the authorization server grants
Held == <<n_run.self.access_token, n_run.self.refresh_token>>
Grants ==
    {<<Renewed(self).access_token, Renewed(self).refresh_token>> :
        self \in {[access_token |-> token] : token \in {None, "access1", "access2"}}}
Carried(access_token) == IF Falsy(access_token) THEN "" ELSE access_token

\* C31: after a successful refresh the client holds exactly the two tokens
\* that refresh returned; every request carries the access token held when
\* it is sent; and a refresh sends the refresh token that was granted
\* together with the access token held, the one of the construction only as
\* long as no refresh has succeeded.
C31_TokensFollowRefresh ==
    LET acc == n_run.acc IN
    /\ Held = <<None, NetatmoClient.refresh_token>> \/ Held \in Grants
    /\ Len(acc.posts) >= 1 =>
            Last(acc.posts).access_token = Carried(n_run.self.access_token)
    /\ Len(acc.refreshes) >= 1 =>
            LET refresh == acc.refreshes[1]
                before == <<acc.posts[1].access_token, refresh.refresh_token>>
            IN  /\ before = <<"", NetatmoClient.refresh_token>> \/ before \in Grants
                /\ refresh.usable =>
                        /\ n_run.self.access_token = refresh.granted
                        /\ Held \in Grants
                        /\ n_run.self.refresh_token # refresh.refresh_token
                        /\ Len(acc.posts) = 2
                        /\ acc.posts[2].access_token = refresh.granted

\* a second refresh, in a later request of the operation: it sent the
\* rotated refresh token and the retry carries the token it granted
C31_Witness ==
    LET acc == n_run.acc IN
    /\ Len(acc.posts) = 2 /\ acc.posts[1].access_token = "access1"
    /\ Len(acc.refreshes) = 1 /\ acc.refreshes[1].refresh_token = "refresh1"
    /\ acc.refreshes[1].usable /\ acc.posts[2].access_token = "access2"
    /\ Held = <<"access2", "refresh2">>
    /\ Len(TokenRequests) = 2

\* the refresh in flight is answered and _renewal raises
RefreshFails == n_run.pc = "token" /\ n_run'.pc = "idle" /\ n_run'.ret.status = "raised"

\* C32: a token refresh that fails, for whatever reason, leaves the access
\* token and the refresh token of the client as they were.
C32_FailedRefreshKeepsTokens ==
    [][RefreshFails =>
            /\ n_run'.self.access_token = n_run.self.access_token
            /\ n_run'.self.refresh_token = n_run.self.refresh_token]_vars

\* a refresh failed on a client that held granted tokens: the answer was
\* refused, or could not be decoded into a token pair
C32_Witness ==
    LET acc == n_run.acc IN
    /\ Len(acc.refreshes) = 1 /\ ~acc.refreshes[1].usable
    /\ acc.refreshes[1].status \in {200, 400}
    /\ acc.state = "raised" /\ acc.posts[1].access_token = "access1"
    /\ Held = <<"access1", "refresh1">>

\* the request in flight is answered and the operation raises one of `excs`
Fails(excs) ==
    /\ n_run.pc # "idle" /\ n_run'.pc = "idle"
    /\ n_run'.ret.status = "raised" /\ n_run'.ret.exc \in excs
IdsKept == \A id \in IdFields : n_run'.self[id] = n_run.self[id]

\* C33: a discovery query that fails its cardinality check (NetatmoRelayError,
\* NetatmoThermostatError, NetatmoValveError) changes none of relay_id,
\* thermostat_id, home_id, room_id, valve_id.
C33_DiscoveryAllOrNothing ==
    [][Fails({"NetatmoRelayError", "NetatmoThermostatError", "NetatmoValveError"})
            => IdsKept]_vars

\* the same for the query of the relay and the thermostat alone
C33_ThermostatGroup ==
    [][Fails({"NetatmoRelayError", "NetatmoThermostatError"}) => IdsKept]_vars

\* what a failed query of the home leaves behind: the identifiers assigned
\* before the check that failed, the home first, then the valve
C33_HomeGroupPrefix ==
    [][Fails({"NetatmoValveError"}) =>
            /\ \A id \in {"relay_id", "thermostat_id", "room_id"} :
                    n_run'.self[id] = n_run.self[id]
            /\ n_run'.self.valve_id # n_run.self.valve_id =>
                    n_run'.self.home_id = n_run'.got.homes[1][1].id]_vars

\* boiler_on, valve_on or valve_percentage is read on a client that has
\* resolved neither its home nor its room
BoilerRead ==
    /\ n_op.name \in {"boiler_on", "valve_on", "valve_percentage"}
    /\ Falsy(n_pre.self.home_id) /\ Falsy(n_pre.self.room_id)
RequestsTo(endpoint) == SelectSeq(n_run.reqs, LAMBDA request : request.endpoint = endpoint)
StateFields == {"thermostat_on", "boiler_on", "valve_on", "valve_percentage"}

\* the read sends no /homesdata, sends /homestatus with the home id unset,
\* and sets no identifier and no state field
BoilerReadResolvesNothing ==
    /\ RequestsTo("/homesdata") = <<>>
    /\ \A i \in 1 .. Len(n_run.reqs) :
            n_run.reqs[i].endpoint = "/homestatus" => n_run.reqs[i].payload.home_id = None
    /\ Len(RequestsTo("/homestatus")) >= 1
    /\ \A field \in IdFields \cup StateFields : n_run.self[field] = n_pre.self[field]

\* C34 as stated: the read resolves nothing and fails with NetatmoBoilerError.
C34_BoilerReadUnresolved ==
    BoilerRead =>
        /\ BoilerReadResolvesNothing
        /\ Done => Raised("NetatmoBoilerError")

\* C34: the read resolves nothing and fails: with NetatmoBoilerError when the
\* server answers a home status, with the error of the request otherwise.
C34_BoilerReadFails ==
    BoilerRead =>
        /\ BoilerReadResolvesNothing
        /\ Done =>
            /\ n_run.ret.status = "raised"
            /\ n_run.acc.state = "returned" => Raised("NetatmoBoilerError")
            /\ n_run.acc.state = "raised" =>
                    /\ Raised(n_run.acc.exc)
                    /\ n_run.acc.exc # "NetatmoBoilerError"

\* the server answered a home status with one boiler that reports its state
C34_Witness ==
    /\ BoilerRead /\ Raised("NetatmoBoilerError")
    /\ n_run.acc.state = "returned"
    /\ Len(RequestsTo("/homestatus")) = 1 /\ Len(n_run.reqs) = 1

\* the last call invoked the underlying function, which returned, and so did
\* the call before it with the same arguments; fewer than maxsize other keys
\* were called in between
Reinvoked ==
    /\ c_last.invoked /\ ~c_last.raised /\ c_last.prior.known
    /\ Cardinality(c_last.prior.others) < MaxSize

\* C35 as stated: two successive successful invocations of the underlying
\* function with the same arguments are at least `lifetime` seconds apart.
C35_InvocationsLifetimeApart ==
    Reinvoked => c_last.time - c_last.prior.value.at >= Lifetime

\* C35: two successive successful invocations of the underlying function
\* with the same arguments lie on either side of an expiry of the cache: the
\* expiry stored when the first returned has passed when the second is made.
C35_InvocationsAcrossExpiry ==
    Reinvoked =>
        /\ c_last.prior.value.at < c_last.prior.expiry
        /\ c_last.prior.expiry <= c_last.time

\* two successful invocations less than `lifetime` apart: one just before
\* the expiry, one at it
C35_Witness ==
    /\ Reinvoked /\ c_last.time - c_last.prior.value.at < Lifetime
    /\ c_last.time = c_last.prior.expiry

\* C36: a result returned from the cache was computed less than `lifetime`
\* seconds before the call that returns it.
C36_StalenessBound ==
    c_last.hit =>
        /\ c_last.result.at <= c_last.time
        /\ c_last.time - c_last.result.at < Lifetime

\* a hit on a result as old as it can get, computed before the first expiry
\* and after it
C36_Witness ==
    /\ c_last.hit /\ c_last.time - c_last.result.at = Lifetime - 1
    /\ c_last.time >= Lifetime

\* the results cached for the instances other than the one that calls
OfOthers(entries, self) == SelectSeq(entries, LAMBDA entry : entry.key.self # self)
\* a call is made by the instance `self` while the cache has room
CallBy(self) ==
    /\ c_calls' # c_calls \/ c_last' # c_last
    /\ c_last'.key.self = self
    /\ Len(c_func.entries) < MaxSize

\* C37: a call of a cached operation on one instance leaves the results
\* cached for the other instances, and their expiry, as they were.
C37_InstanceScoped ==
    [][\A self \in {key.self : key \in CacheKeys} :
            (CallBy(self) /\ OfOthers(c_func.entries, self) # <<>>) =>
                /\ OfOthers(c_func'.entries, self) = OfOthers(c_func.entries, self)
                /\ c_func'.expiration = c_func.expiration]_vars

\* the same for the calls made before the expiry
C37_BeforeExpiry ==
    [][\A self \in {key.self : key \in CacheKeys} :
            (/\ CallBy(self) /\ OfOthers(c_func.entries, self) # <<>>
             /\ c_now < c_func.expiration) =>
                /\ OfOthers(c_func'.entries, self) = OfOthers(c_func.entries, self)
                /\ c_func'.expiration = c_func.expiration]_vars

\* C38: a call of a timed_lru_cache function that raises stores nothing for
\* its arguments, and the next call with the same arguments invokes the
\* underlying function again.
C38_FailuresNotCached ==
    /\ c_last.raised =>
            /\ c_last.invoked
            /\ lru_find(c_func.entries, c_last.key) = 0
            /\ Len(c_func.entries) = (IF c_last.expired THEN 0 ELSE c_last.before)
    /\ c_last.prior.failed => c_last.invoked /\ ~c_last.hit

\* the call that follows a call that raised, before any expiry, succeeds and
\* its result is cached
C38_Witness ==
    /\ c_last.prior.failed /\ ~c_last.expired /\ c_last.invoked /\ ~c_last.raised
    /\ c_last.before >= 1
    /\ lru_find(c_func.entries, c_last.key) # 0

\* the first POST of the _access_server call failed in transport, or was
\* answered an error status other than 403
NetatmoFailure ==
    /\ Len(n_run.acc.posts) >= 1
    /\ \/ n_run.acc.posts[1].status = 0
       \/ n_run.acc.posts[1].status >= 400 /\ n_run.acc.posts[1].status # 403
\* the last GET of the meter failed in transport, or was answered 500
EfergyFailure ==
    /\ e_ans # <<>>
    /\ Last(e_ans).failed \/ Last(e_ans).status = 500

\* C39: a request that fails in transport or is answered an error status
\* other than 403 (Netatmo), or fails in transport or is answered 500
\* (Efergy), is not sent again: it is the only request of its call, no token
\* refresh is attempted, and the call raises NetatmoConnectionError,
\* EfergyConnectionError or EfergyServerError.
C39_NoRetry ==
    /\ NetatmoFailure =>
            /\ Surfaced("NetatmoConnectionError")
            /\ n_run.acc.refreshes = <<>>
            /\ Last(n_run.reqs) = Request(n_run.acc.endpoint, n_run.sent)
            /\ Len(n_run.reqs) >= 2 =>
                    n_run.reqs[Len(n_run.reqs) - 1] # Last(n_run.reqs)
    /\ EfergyFailure =>
            /\ e_pc = "raised"
            /\ e_exc = (IF Last(e_ans).failed THEN "EfergyConnectionError"
                        ELSE "EfergyServerError")
            /\ Len(e_req) = Len(e_ans)
            /\ \A i, j \in 1 .. Len(e_req) : e_req[i] = e_req[j] => i = j

\* a status 500 to a /getmeasure request, and a status 500 to the second
\* request of the meter's generator
C39_Witness ==
    /\ NetatmoFailure /\ n_run.acc.posts[1].status = 500
    /\ n_run.acc.endpoint = "/getmeasure" /\ Raised("NetatmoConnectionError")
    /\ EfergyFailure /\ Last(e_ans).status = 500
    /\ Len(e_req) = 2 /\ e_exc = "EfergyServerError"

====
